---- MODULE Spec2Model ----
(***************************************************************************)
(* Model of the Meshroom processing scripts (src/scripts/*.py): the run of *)
(* one script from start to end (session folder, photo discovery, delegate *)
(* or simulated stages, artifact files, summary) and the listing of        *)
(* previous sessions.                                                      *)
(*                                                                         *)
(* A file is the sequence of the text records the script appends to it.    *)
(* Each record carries the terminator the script really writes after it:   *)
(*   "NL"   a newline character (a line break inside a triple-quoted       *)
(*          string, or "\n" in a string literal),                          *)
(*   "BSN"  the two characters backslash and n, which is what the Python   *)
(*          literal "\\n" denotes: no line break,                          *)
(*   "NONE" nothing.                                                       *)
(* A line of the file, as a reader of the file sees it, runs up to the     *)
(* next "NL".                                                              *)
(***************************************************************************)
EXTENDS Integers, Sequences, FiniteSets, TLC

VARIABLES
    script,          \* which script's main() is running
    nasUp,           \* os.path.exists(NAS_INPUT): the NAS share is reachable
    photoCount,      \* number of photos the discovery finds in NAS_INPUT
    pc,              \* position of main()
    result,          \* how the run ended ("Running" until then)
    dirs,            \* directories the run has made (os.makedirs)
    files,           \* files the run has written: name -> content
    meshroom_path,   \* find_meshroom_installation() found an executable
    delegateOutcome, \* how the delegate process ended ("none" if not run)
    success,         \* main(): success of run_real_meshroom
    has_cluster,     \* result of check_cluster_status()
    started,         \* stages whose "Step k/6" banner has been printed
    completed,       \* stages whose completion line has been printed
    cancelStage,     \* index of the stage that ran when cancellation was
                     \* requested, -1 while none was requested
    clock,           \* session listing: current time, in ticks
    entries,         \* session listing: items under NAS_OUTPUT_BASE
    listing,         \* session listing: last result of list_previous_sessions
    kubectl,         \* how `kubectl get pods` ends on this machine
    running_pods,    \* occurrences of 'Running' in the text kubectl prints
    oldOutputs,      \* NAS_OUTPUT holds files that earlier runs left there
    runs,            \* concurrent runs: script, session folder, files written
    seed,            \* the seed of the run's random number generator
    discovery,       \* photo discovery: input folder, file system, result
    sim,             \* synthetic stage sequence: stage, loop index, notifications
    gui,             \* control centre: timer, command threads, log, history
    invocations,     \* the command lines the delegate was started with
    writeFault       \* the artifact whose writing fails in this run, if any

runVars  == <<script, nasUp, photoCount, pc, result, dirs, files, meshroom_path,
              delegateOutcome, success, has_cluster, started, completed,
              cancelStage, kubectl, running_pods, oldOutputs, runs, seed,
              discovery, sim, gui, invocations, writeFault>>
sessVars == <<clock, entries, listing>>
vars     == <<script, nasUp, photoCount, pc, result, dirs, files, meshroom_path,
              delegateOutcome, success, has_cluster, started, completed,
              cancelStage, clock, entries, listing,
                   kubectl, running_pods, oldOutputs, runs, seed, discovery,
                   sim, gui, invocations, writeFault>>

\* ---------------------------------------------------------------- bounds
MaxPhotos == 3
MaxPods == 2
\* session listing: clock ticks per second, last tick, file-system operations
TicksPerSecond == 2
MaxClock == 3
MaxOps == 4
\* photo discovery: files in the input folder
MaxFiles == 2
\* synthetic stage sequence: photo counts up to where every stage of the
\* actual script has left its floor
MaxSimPhotos == 42
\* delegated runs: photo counts up to past the limit of the command line
MaxDelegatePhotos == 11
\* runs with a failing write: photo counts
MaxFaultPhotos == 1
\* control centre: clicks and key presses of the user
MaxGuiOps == 8

\* ------------------------------------------------------------ arithmetic
Min(a, b) == IF a < b THEN a ELSE b

\* len(range(lo, hi, step)) of Python, step > 0
RangeLen(lo, hi, step) == IF hi <= lo THEN 0 ELSE (hi - lo + step - 1) \div step

\* ------------------------------------------------------------ text records
Rec(kind, name, count, refs, term) ==
    [kind |-> kind, name |-> name, count |-> count, refs |-> refs, term |-> term]

\* a line of a triple-quoted string, or text followed by "\n"
Line(kind) == Rec(kind, "", 0, <<>>, "NL")
LineN(kind, count) == Rec(kind, "", count, <<>>, "NL")
\* text followed by the literal "\\n" of the source
Esc(kind) == Rec(kind, "", 0, <<>>, "BSN")
EscN(kind, count) == Rec(kind, "", count, <<>>, "BSN")

\* the same record appended n times by a loop
Repeat(rec, n) == [i \in 1..n |-> rec]

\* ------------------------------------------------------- random numbers
\* the seeds `random` may start a run with (it is seeded from the system)
Seeds == {0, 1}

\* random.uniform / random.randint: the number drawn for the i-th record
Draw(sd, i) == (sd + i) % 2

\* n records appended by a loop, each with the numbers drawn for it
RandomLines(kind, n, sd, term) ==
    [i \in 1..n |-> Rec(kind, "", Draw(sd, i), <<>>, term)]

\* --------------------------------------------------------- PLY generators
PlyProperties(k) == Repeat(Line("property"), k)

\* actual-meshroom-processing.py: create_valid_ply_file
num_points(n) == Min(n * 100, 5000)

create_valid_ply_file(n, sd) ==
    <<Line("ply"), Line("format ascii 1.0"), Line("comment"),
      LineN("element vertex", num_points(n))>>
    \o PlyProperties(6) \o <<Line("end_header")>>
    \o RandomLines("vertex data", num_points(n), sd, "BSN")

\* NativePly whose number of points is itself drawn
NativePly_randomCount(n, sd) ==
    <<Line("ply"), Line("format ascii 1.0"), Line("comment"), Line("comment"),
      LineN("element vertex", n * 2000 + Draw(sd, n))>>
    \o PlyProperties(9) \o <<Line("end_header")>>
    \o RandomLines("vertex data", n * 2000 + Draw(sd, n), sd, "BSN")

\* meshroom-native-processing.py: create_output_files, PLY part
NativePly(n, sd) ==
    <<Line("ply"), Line("format ascii 1.0"), Line("comment"), Line("comment"),
      LineN("element vertex", n * 2000)>>
    \o PlyProperties(9) \o <<Line("end_header")>>
    \o RandomLines("vertex data", n * 2000, sd, "BSN")

\* realistic-meshroom-processing.py: process_photos_realistically, the
\* figures it returns in processing_stats
sparse_points(n) == n * 200
dense_points(n) == n * 2000
mesh_faces(n) == n * 1000

\* realistic-meshroom-processing.py: create_realistic_output_files, PLY part
RealisticPly(n, sd) ==
    <<Line("ply"), Line("format ascii 1.0"), Line("comment"), Line("comment"),
      LineN("comment Sparse points", sparse_points(n)),
      LineN("comment Dense points", dense_points(n)),
      LineN("element vertex", dense_points(n))>>
    \o PlyProperties(7) \o <<Line("end_header")>>
    \o RandomLines("vertex data", dense_points(n), sd, "BSN")

\* quick-valid-3d.py: create_simple_valid_ply (the 8 corners of a cube)
create_simple_valid_ply ==
    <<Line("ply"), Line("format ascii 1.0"), Line("comment"),
      LineN("element vertex", 8)>>
    \o PlyProperties(6) \o <<Line("end_header")>>
    \o Repeat(Esc("vertex data"), 8)

\* --------------------------------------------------------- OBJ generators
Face(a, b, c, term) == Rec("f", "", 0, <<a, b, c>>, term)

\* IcoFaces with the last face on vertex 3 instead of vertex 2
IcoFaces_lastFaceMoved ==
    << <<1, 12, 6>>, <<1, 6, 2>>, <<1, 2, 8>>, <<1, 8, 11>>, <<1, 11, 12>>,
       <<2, 6, 10>>, <<6, 12, 5>>, <<12, 11, 3>>, <<11, 8, 7>>, <<8, 2, 9>>,
       <<4, 10, 5>>, <<4, 5, 3>>, <<4, 3, 7>>, <<4, 7, 9>>, <<4, 9, 10>>,
       <<5, 10, 6>>, <<3, 5, 12>>, <<7, 3, 11>>, <<9, 7, 8>>, <<10, 9, 3>> >>

\* actual-meshroom-processing.py: create_valid_obj_file, the faces table
IcoFaces ==
    << <<1, 12, 6>>, <<1, 6, 2>>, <<1, 2, 8>>, <<1, 8, 11>>, <<1, 11, 12>>,
       <<2, 6, 10>>, <<6, 12, 5>>, <<12, 11, 3>>, <<11, 8, 7>>, <<8, 2, 9>>,
       <<4, 10, 5>>, <<4, 5, 3>>, <<4, 3, 7>>, <<4, 7, 9>>, <<4, 9, 10>>,
       <<5, 10, 6>>, <<3, 5, 12>>, <<7, 3, 11>>, <<9, 7, 8>>, <<10, 9, 2>> >>

\* actual-meshroom-processing.py: create_valid_obj_file
create_valid_obj_file(n) ==
    <<Line("#"), Line("#"), Line("")>>
    \o Repeat(Esc("v"), 12)
    \o [k \in 1..Len(IcoFaces) |->
           Face(IcoFaces[k][1], IcoFaces[k][2], IcoFaces[k][3], "BSN")]

\* NativeObj with the face loop counting from 0, as for 0-based indices
NativeObj_zeroBased(n, sd) ==
    <<Line("#"), Line("#"), Line("#"), Line("mtllib")>>
    \o RandomLines("v", n * 100, sd, "BSN")
    \o RandomLines("vt", n * 100, sd, "BSN")
    \o RandomLines("vn", n * 100, sd, "BSN")
    \o [k \in 1..RangeLen(0, n * 95, 3) |->
           Face(3 * k - 3, 3 * k - 2, 3 * k - 1, "BSN")]

\* meshroom-native-processing.py: create_output_files, OBJ part;
\* the k-th face is written for i = 1 + 3*(k-1) of range(1, n*95, 3)
NativeObj(n, sd) ==
    <<Line("#"), Line("#"), Line("#"), Line("mtllib")>>
    \o RandomLines("v", n * 100, sd, "BSN")
    \o RandomLines("vt", n * 100, sd, "BSN")
    \o RandomLines("vn", n * 100, sd, "BSN")
    \o [k \in 1..RangeLen(1, n * 95, 3) |->
           Face(3 * k - 2, 3 * k - 1, 3 * k, "BSN")]

\* realistic-meshroom-processing.py: create_realistic_output_files, OBJ part
vertex_count(n) == mesh_faces(n) \div 2

RealisticObj(n, sd) ==
    <<Line("#"), Line("#"), Line("#"), LineN("# Faces", mesh_faces(n)),
      Line("#"), Line("mtllib"), Line("")>>
    \o RandomLines("v", vertex_count(n), sd, "BSN")
    \o Repeat(Esc("vt"), vertex_count(n))
    \o [k \in 1..RangeLen(1, vertex_count(n) - 2, 3) |->
           Face(3 * k - 2, 3 * k - 1, 3 * k, "BSN")]

\* quick-valid-3d.py: create_simple_valid_obj (one triple-quoted string)
create_simple_valid_obj ==
    <<Line("#"), Line("#"), Line(""), Line("#"),
      Line("v"), Line("v"), Line("v"), Line("v"),
      Line(""), Line("#"),
      Face(1, 2, 3, "NL"), Face(1, 3, 4, "NL"),
      Face(1, 4, 2, "NL"), Face(2, 4, 3, "NL")>>

\* quick-valid-3d.py: create_better_valid_obj; quad (i, j) for i in range(9),
\* j in range(19) is the q-th quad, q = 19*i + j + 1, and gives two faces
QuadI(q) == (q - 1) \div 19
QuadJ(q) == (q - 1) % 19
QuadV1(q) == QuadI(q) * 20 + QuadJ(q) + 1
QuadV2(q) == QuadI(q) * 20 + (QuadJ(q) + 1) + 1
QuadV3(q) == (QuadI(q) + 1) * 20 + QuadJ(q) + 1
QuadV4(q) == (QuadI(q) + 1) * 20 + (QuadJ(q) + 1) + 1

create_better_valid_obj ==
    <<Line("#"), Line("#"), Line("")>>
    \o Repeat(Esc("v"), 10 * 20)
    \o [k \in 1..(2 * 9 * 19) |->
           LET q == (k + 1) \div 2
           IN  IF k % 2 = 1
               THEN Face(QuadV1(q), QuadV2(q), QuadV3(q), "BSN")
               ELSE Face(QuadV2(q), QuadV4(q), QuadV3(q), "BSN")]

\* --------------------------------------------------------- STL generators
\* the seven text lines of one facet, each followed by term; x is the
\* number in its vertex lines
FacetLine(j, term, x) ==
    CASE j = 1 -> Rec("facet normal", "", 0, <<>>, term)
      [] j = 2 -> Rec("outer loop", "", 0, <<>>, term)
      [] j = 6 -> Rec("endloop", "", 0, <<>>, term)
      [] j = 7 -> Rec("endfacet", "", 0, <<>>, term)
      [] OTHER -> Rec("vertex", "", x, <<>>, term)

Facet(term, x) == [j \in 1..7 |-> FacetLine(j, term, x)]

\* k facets with the numbers drawn for them
Facets(k, term, sd) ==
    [i \in 1..(7 * k) |-> FacetLine(((i - 1) % 7) + 1, term, Draw(sd, (i - 1) \div 7))]

\* meshroom-native-processing.py: create_output_files, STL part
NativeStl(n, sd) ==
    <<Rec("solid", "Meshroom_Photos", n, <<>>, "BSN")>>
    \o Facets(n * 50, "BSN", sd)
    \o <<Rec("endsolid", "Meshroom_Photos", n, <<>>, "NONE")>>

\* realistic-meshroom-processing.py: create_realistic_output_files, STL part
RealisticStl(n, sd) ==
    <<Rec("solid", "Meshroom_Photos", n, <<>>, "BSN")>>
    \o Facets(mesh_faces(n), "BSN", sd)
    \o <<Rec("endsolid", "Meshroom_Photos", n, <<>>, "NONE")>>

\* quick-valid-3d.py: create_valid_stl (one triple-quoted string, 4 facets)
create_valid_stl ==
    <<Rec("solid", "SimpleModel", 0, <<>>, "NL")>>
    \o Facets(4, "NL", 0)
    \o <<Rec("endsolid", "SimpleModel", 0, <<>>, "NL")>>

\* ------------------------------------- real-meshroom-processing.py: mock
\* create_meshroom_script: the files the generated script writes when
\* Meshroom cannot be imported. The "\\n" of the template is "\n" in the
\* generated script: these records end in a line break.
MockPly(sd) ==
    <<Line("ply"), Line("format ascii 1.0"), Line("comment"),
      LineN("element vertex", 1000)>>
    \o PlyProperties(6) \o <<Line("end_header")>>
    \o RandomLines("vertex data", 1000, sd, "NL")

\* the k-th face is written for i = 3*(k-1) of range(0, 90, 3)
MockObj(sd) ==
    <<Line("#"), Line("#"), Line("mtllib"), Line("")>>
    \o RandomLines("v", 100, sd, "NL")
    \o RandomLines("vt", 100, sd, "NL")
    \o [k \in 1..RangeLen(0, 90, 3) |-> Face(3 * k - 2, 3 * k - 1, 3 * k, "NL")]

MockStl(sd) ==
    <<Rec("solid", "MeshroomModel", 0, <<>>, "NL")>>
    \o Facets(50, "NL", sd)
    \o <<Rec("endsolid", "MeshroomModel", 0, <<>>, "NONE")>>

\* ------------------------------------------------------------- summaries
Named(kind, name, term) == Rec(kind, name, 0, <<>>, term)

\* ActualSummary that names the real method whatever produced the models
ActualSummary_alwaysReal(n, real) ==
    <<Esc("Meshroom Processing Summary"), Esc("Session"), EscN("Photos", n),
      Esc("Processing time"), Named("Method", "Real Meshroom", "BSN")>>

\* actual-meshroom-processing.py: main, the summary written at the end
ActualSummary(n, real) ==
    <<Esc("Meshroom Processing Summary"), Esc("Session"), EscN("Photos", n),
      Esc("Processing time"),
      Named("Method", IF real THEN "Real Meshroom" ELSE "Simulation", "BSN")>>

\* meshroom-native-processing.py: create_output_files, the summary
NativeSummary(n) ==
    <<Esc("Meshroom Distributed Processing Results"), Esc("===="), Esc("Date"),
      Esc("Session"), EscN("Total photos processed", n), Esc("HEIC files"),
      Esc("JPG files"), Esc("Other formats"),
      Esc(""), Esc("Processing Method"), Esc("Native HEIC support"),
      Esc(""), Esc("Generated Files:"),
      Named("file", "ply", "BSN"), Named("file", "obj", "BSN"),
      Named("file", "stl", "BSN"),
      Esc(""), Esc("Photo List:")>>
    \o [i \in 1..n |-> EscN("photo", i)]

\* realistic-meshroom-processing.py: create_realistic_output_files, the summary
RealisticSummary(n) ==
    <<Esc("Meshroom 3D Reconstruction Results"), Esc("===="), Esc("Date"),
      Esc("Session"), Esc(""), Esc("Dataset Information:"),
      EscN("Total photos processed", n), Esc("HEIC files"), Esc("JPG files"),
      Esc(""), Esc("Processing Results:"),
      EscN("Sparse point cloud", sparse_points(n)),
      EscN("Dense point cloud", dense_points(n)),
      EscN("Mesh faces", mesh_faces(n)),
      Esc("Processing time"),
      Esc(""), Esc("Generated Files:"),
      Named("file", "ply", "BSN"), Named("file", "obj", "BSN"),
      Named("file", "stl", "BSN"),
      Esc(""), Esc("Photo List:")>>
    \o [i \in 1..n |-> EscN("photo", i)]

\* quick-valid-3d.py: main, file_info.txt
QuickSummary ==
    <<Esc("Quick 3D File Generation Results"), Esc("===="), Esc("Session"),
      Esc("Created"), Esc("Processing time"), Esc(""), Esc("Generated Files:"),
      Named("file", "ply", "BSN"), Named("file", "obj", "BSN"),
      Named("file", "obj_detailed", "BSN"), Named("file", "stl", "BSN"),
      Esc(""), Esc("These files should open properly in Blender!")>>

\* process-photos-simple.py: start_distributed_processing, the two result
\* files (written with real newlines)
SimpleResults(n) ==
    <<Line("3D Model Processing Results"), Line("===="), Line("Date"),
      LineN("Photos processed", n), Line("Photo files:")>>
    \o [i \in 1..n |-> LineN("photo", i)]
    \o <<Line(""), Line("Processing completed successfully"),
          Line("Coordinator pod"), Line("Worker pods"), Line("Results location")>>

SimpleModelInfo(n) ==
    <<Line("3D Model Information"), Line("===="), LineN("Source photos", n),
      Line("Model type"), Line("Processing method"), Line("Cluster"),
      Line("Status"), Line(""), Line("Next steps:"),
      Line("-"), Line("-"), Line("-")>>

\* project and job files (content not inspected by any property)
ProjectFile(n) == <<LineN("project", n)>>

\* --------------------------------------------------------------- stages
\* actual-meshroom-processing.py: simulate_realistic_processing, and
\* realistic-meshroom-processing.py: process_photos_realistically
SixStages ==
    <<"CameraInit", "FeatureExtraction", "ImageMatching",
      "StructureFromMotion", "DenseReconstruction", "MeshingAndTexturing">>

\* process-photos-simple.py: start_distributed_processing, the steps table
SimpleSteps ==
    <<"FeatureExtraction", "ImageMatching", "StructureFromMotion",
      "DenseReconstruction", "MeshGeneration", "TextureMapping">>

Stages(s) == IF s = "simple" THEN SimpleSteps ELSE SixStages

\* ------------------------------------------------------------------ runs
Scripts == {"actual", "native", "realistic", "simple", "quick", "real"}

EmptyFiles == [k \in {} |-> <<>>]

Write(fs, name, content) == (name :> content) @@ fs

\* the cluster as the run finds it: only the scripts with a
\* check_cluster_status look at it; a kubectl that fails or never returns
\* prints no status
ClusterInit ==
    /\ kubectl \in {"ok", "nonzero", "missing", "hangs"}
    /\ running_pods \in 0..MaxPods
    /\ (kubectl # "ok" => running_pods = 0)
    /\ (script \in {"actual", "quick"} => kubectl = "ok" /\ running_pods = 0)

\* the two concurrent runs, before either has started
Runs == {1, 2}
NoRuns == [r \in Runs |-> [script |-> "actual", session |-> -1, step |-> 0]]

\* every file of the run can be written
NoFault == [at |-> "none", partial |-> FALSE]

\* no synthetic stage sequence is being followed
NoSim == [script |-> "none", n |-> 0, stage |-> 0]

\* the control centre is not open
NoGui == [open |-> FALSE]

\* MeshroomControlCenter.__init__ and setup_variables: the control centre
\* as it opens; `timers` holds the time left of each pending
\* root.after(30000, self.start_auto_refresh) call, `ops` counts the
\* clicks and key presses made
GuiStart ==
    [open |-> TRUE, auto_refresh |-> TRUE, timers |-> <<>>, ops |-> 0,
     threads |-> <<>>, log |-> <<>>,
     command_history |-> <<>>, history_index |-> 0, command_entry |-> ""]

\* photo discovery not yet made, on an empty input folder
NoDiscovery ==
    [folder |-> {}, caseInsensitive |-> TRUE, converts |-> TRUE,
     done |-> FALSE, photos |-> <<>>]

FirstPc(s) ==
    CASE s = "actual" -> "find"
      [] s = "quick"  -> "session"
      [] OTHER        -> "probe"

Init ==
    /\ script \in Scripts
    /\ nasUp \in BOOLEAN
    /\ photoCount \in 0..MaxPhotos
    /\ (~nasUp => photoCount = 0)
    /\ pc = FirstPc(script)
    /\ result = "Running"
    /\ dirs = {}
    /\ files = EmptyFiles
    /\ meshroom_path = FALSE
    /\ delegateOutcome = "none"
    /\ success = FALSE
    /\ has_cluster = FALSE
    /\ started = <<>>
    /\ completed = <<>>
    /\ cancelStage = -1
    /\ clock = 0
    /\ entries = <<>>
    /\ listing = <<>>
    /\ ClusterInit
    /\ oldOutputs \in BOOLEAN
    /\ (oldOutputs => script = "real" /\ nasUp)
    /\ runs = NoRuns
    /\ seed \in Seeds
    /\ (script \in {"simple", "quick"} => seed = 0)
    /\ discovery = NoDiscovery
    /\ sim = NoSim
    /\ gui = NoGui
    /\ invocations = <<>>
    /\ writeFault = NoFault

\* the run ends: main() returns or an exception leaves it
End(r) == pc' = "done" /\ result' = r

\* actual-meshroom-processing.py: find_meshroom_installation
FindMeshroom ==
    /\ script = "actual" /\ pc = "find"
    /\ meshroom_path' \in BOOLEAN
    /\ pc' = "session"
    /\ UNCHANGED <<script, nasUp, photoCount, result, dirs, files,
                   delegateOutcome, success, has_cluster, started, completed,
                   cancelStage, clock, entries, listing,
                   kubectl, running_pods, oldOutputs, runs, seed, discovery,
                   sim, gui, invocations, writeFault>>

\* ReadyThreshold with the threshold of the other scripts for all of them
ReadyThreshold_two(s) == 2

\* check_cluster_status: the number of 'Running' pods needed
ReadyThreshold(s) == IF s = "realistic" THEN 1 ELSE 2

\* realistic-meshroom-processing.py: process_photos_realistically, the
\* processing mode it prints
processing_mode(hc) == IF hc THEN "Distributed" ELSE "SingleNode"

\* check_cluster_status: result.stdout.count('Running') against the
\* threshold; a non-zero exit (CalledProcessError) gives False
check_cluster_status(s, k, pods) == k = "ok" /\ pods >= ReadyThreshold(s)

\* check_cluster_status and the use main() makes of its result; kubectl
\* either prints a status text with running_pods occurrences of 'Running',
\* or exits non-zero (CalledProcessError, caught), or cannot be started
\* (FileNotFoundError, not caught), or never returns (subprocess.run is
\* called without a timeout)
CheckClusterStatus ==
    /\ script \in {"native", "realistic", "simple", "real"} /\ pc = "probe"
    /\ LET ready == check_cluster_status(script, kubectl, running_pods)
       IN  /\ has_cluster' = ready
           /\ IF kubectl = "missing" THEN End("Crashed")
              ELSE IF kubectl = "hangs" THEN pc' = "blocked" /\ UNCHANGED result
              ELSE IF script = "simple" /\ ~ready THEN End("ClusterNotReady")
              ELSE /\ pc' = CASE script = "simple" -> "photos"
                               [] script = "real"   -> "mkdirs"
                               [] OTHER             -> "session"
                   /\ UNCHANGED result
    /\ UNCHANGED <<script, nasUp, photoCount, dirs, files, meshroom_path,
                   delegateOutcome, success, started, completed,
                   cancelStage, clock, entries, listing,
                   kubectl, running_pods, oldOutputs, runs, seed, discovery,
                   sim, gui, invocations, writeFault>>

\* CreateSessionFolder that makes the base output directory before it looks
\* at the connectivity
CreateSessionFolder_mkdirFirst ==
    /\ script \in {"actual", "native", "realistic", "quick"} /\ pc = "session"
    /\ dirs' = dirs \cup (IF nasUp THEN {"output_base", "session"} ELSE {"output_base"})
    /\ IF ~nasUp
       THEN End(IF script = "quick" THEN "Crashed" ELSE "StorageUnreachable")
       ELSE /\ pc' = CASE script = "native" -> "temp"
                        [] script = "quick"  -> "ply"
                        [] OTHER             -> "photos"
            /\ UNCHANGED result
    /\ UNCHANGED <<script, nasUp, photoCount, files, meshroom_path,
                   delegateOutcome, success, has_cluster, started, completed,
                   cancelStage, clock, entries, listing,
                   kubectl, running_pods, oldOutputs, runs, seed, discovery,
                   sim, gui, invocations, writeFault>>

\* create_session_folder; quick-valid-3d.py has no connectivity check and
\* its os.makedirs raises when the share is not there
CreateSessionFolder ==
    /\ script \in {"actual", "native", "realistic", "quick"} /\ pc = "session"
    /\ IF ~nasUp
       THEN /\ End(IF script = "quick" THEN "Crashed" ELSE "StorageUnreachable")
            /\ UNCHANGED dirs
       ELSE /\ dirs' = dirs \cup {"output_base", "session"}
            /\ pc' = CASE script = "native" -> "temp"
                        [] script = "quick"  -> "ply"
                        [] OTHER             -> "photos"
            /\ UNCHANGED result
    /\ UNCHANGED <<script, nasUp, photoCount, files, meshroom_path,
                   delegateOutcome, success, has_cluster, started, completed,
                   cancelStage, clock, entries, listing,
                   kubectl, running_pods, oldOutputs, runs, seed, discovery,
                   sim, gui, invocations, writeFault>>

\* meshroom-native-processing.py: main, os.makedirs(NAS_TEMP)
MakeTemp ==
    /\ script = "native" /\ pc = "temp"
    /\ dirs' = dirs \cup {"temp"}
    /\ pc' = "photos"
    /\ UNCHANGED <<script, nasUp, photoCount, result, files, meshroom_path,
                   delegateOutcome, success, has_cluster, started, completed,
                   cancelStage, clock, entries, listing,
                   kubectl, running_pods, oldOutputs, runs, seed, discovery,
                   sim, gui, invocations, writeFault>>

\* main: photo discovery and the `if not photos` return;
\* real-meshroom-processing.py: convert_heic_to_jpg makes CONVERTED_DIR when
\* it finds HEIC files, whether or not any of them converts
GetPhotos ==
    /\ script \in {"actual", "native", "realistic", "simple", "real"}
    /\ pc = "photos"
    /\ \E heic \in BOOLEAN :
         /\ (heic => script = "real" /\ nasUp)
         /\ dirs' = IF heic THEN dirs \cup {"converted_jpg"} ELSE dirs
    /\ IF photoCount = 0
       THEN End("NoPhotosFound")
       ELSE /\ pc' = CASE script = "actual" -> "prompt"
                        [] script = "simple" -> "mkdirs"
                        [] OTHER             -> "project"
            /\ UNCHANGED result
    /\ UNCHANGED <<script, nasUp, photoCount, files, meshroom_path,
                   delegateOutcome, success, has_cluster, started, completed,
                   cancelStage, clock, entries, listing,
                   kubectl, running_pods, oldOutputs, runs, seed, discovery,
                   sim, gui, invocations, writeFault>>

\* RunsSimulation with the test inverted (`if success`)
RunsSimulation_inverted(succ) == succ

\* RunsSimulation without the test: the simulation always runs
RunsSimulation_always(succ) == TRUE

\* actual-meshroom-processing.py: main, `if not success` after the delegate
RunsSimulation(succ) == ~succ

\* actual-meshroom-processing.py: main, `if response.lower() != 'y'`
Declined(response) == response # "y"

\* Prompt without the `return` after "Processing cancelled"
Prompt_noReturn ==
    /\ script = "actual" /\ pc = "prompt"
    /\ \E response \in {"y", "n", ""} :
         /\ result' = IF Declined(response) THEN "Cancelled" ELSE result
         /\ pc' = IF meshroom_path THEN "delegate"
                  ELSE IF RunsSimulation(success) THEN "stages"
                  ELSE "summary"
    /\ UNCHANGED <<script, nasUp, photoCount, dirs, files, meshroom_path,
                   delegateOutcome, success, has_cluster, started, completed,
                   cancelStage, clock, entries, listing,
                   kubectl, running_pods, oldOutputs, runs, seed, discovery,
                   sim, gui, invocations, writeFault>>

\* actual-meshroom-processing.py: main, the confirmation prompt
Prompt ==
    /\ script = "actual" /\ pc = "prompt"
    /\ \E response \in {"y", "n", ""} :
         IF Declined(response)
         THEN End("Cancelled")
         ELSE /\ pc' = IF meshroom_path THEN "delegate"
                       ELSE IF RunsSimulation(success) THEN "stages"
                       ELSE "summary"
              /\ UNCHANGED result
    /\ UNCHANGED <<script, nasUp, photoCount, dirs, files, meshroom_path,
                   delegateOutcome, success, has_cluster, started, completed,
                   cancelStage, clock, entries, listing,
                   kubectl, running_pods, oldOutputs, runs, seed, discovery,
                   sim, gui, invocations, writeFault>>

\* run_real_meshroom: cmd, with the photos as their positions in the sorted
\* photo list: "--input" takes photos[:10], "--output" the meshroom_output
\* directory of the session, "--save" the project file
InputLimit == 10

\* MeshroomCommand without the limit
MeshroomCommand_allPhotos(n) ==
    [input |-> [i \in 1..n |-> i], output |-> "meshroom_output", save |-> "project"]

MeshroomCommand(n) ==
    [input |-> [i \in 1..Min(n, InputLimit) |-> i],
     output |-> "meshroom_output", save |-> "project"]

\* actual-meshroom-processing.py: run_real_meshroom. The delegate exits
\* with 0, exits with another code, cannot be launched (exception, caught),
\* or never exits: process.wait() has no timeout
RunRealMeshroom ==
    /\ script = "actual" /\ pc = "delegate"
    /\ files' = Write(files, "project", ProjectFile(photoCount))
    /\ dirs' = dirs \cup {"meshroom_output"}
    /\ invocations' = Append(invocations, MeshroomCommand(photoCount))
    /\ \E outcome \in {"exit0", "nonzero", "launch_exception", "hang"} :
         /\ delegateOutcome' = outcome
         /\ success' = (outcome = "exit0")
         /\ pc' = IF outcome = "hang" THEN "blocked"
                  ELSE IF RunsSimulation(outcome = "exit0") THEN "stages"
                  ELSE "summary"
    /\ UNCHANGED <<script, nasUp, photoCount, result, meshroom_path,
                   has_cluster, started, completed, cancelStage,
                   clock, entries, listing,
                   kubectl, running_pods, oldOutputs, runs, seed, discovery,
                   sim, gui, writeFault>>

\* native: create_real_meshroom_workflow (NAS_TEMP/full_dataset.mg);
\* realistic: create_meshroom_project (session/meshroom_project.json);
\* real: create_meshroom_script (NAS_TEMP/meshroom_processing.py)
CreateProject ==
    /\ script \in {"native", "realistic", "real"} /\ pc = "project"
    /\ files' = Write(files, "project", ProjectFile(photoCount))
    /\ pc' = CASE script = "native" -> "submit"
                [] script = "real"   -> "delegate"
                [] OTHER             -> "stages"
    /\ UNCHANGED <<script, nasUp, photoCount, result, dirs, meshroom_path,
                   delegateOutcome, success, has_cluster, started, completed,
                   cancelStage, clock, entries, listing,
                   kubectl, running_pods, oldOutputs, runs, seed, discovery,
                   sim, gui, invocations, writeFault>>

\* real-meshroom-processing.py: main, subprocess.run(['python', script_file],
\* timeout=300). The generated script writes its mock files when Meshroom
\* cannot be imported ("mock"), writes the models of a real reconstruction
\* ("meshroom"), or ends on an error of Meshroom, which only its exit code
\* tells ("nonzero", never looked at); or python cannot be started
\* ("launch_exception", caught) or the script runs longer than the timeout
\* and is killed ("timeout", caught).
RunProcessingScript ==
    /\ script = "real" /\ pc = "delegate"
    /\ \E outcome \in {"mock", "meshroom", "nonzero", "launch_exception", "timeout"} :
         /\ delegateOutcome' = outcome
         /\ success' = (outcome \in {"mock", "meshroom"})
         /\ files' =
              CASE outcome = "mock" ->
                     Write(Write(Write(files, "point_cloud", MockPly(seed)),
                                 "textured_model", MockObj(seed)),
                           "printable_model", MockStl(seed))
                [] outcome = "meshroom" ->
                     Write(Write(files, "model", <<Line("#")>>),
                           "mesh", <<Line("ply")>>)
                [] OTHER -> files
    /\ pc' = "check"
    /\ UNCHANGED <<script, nasUp, photoCount, result, dirs, meshroom_path,
                   has_cluster, started, completed, cancelStage,
                   clock, entries, listing,
                   kubectl, running_pods, oldOutputs, runs, seed, discovery,
                   sim, gui, invocations, writeFault>>

\* the files of this run that lie in NAS_OUTPUT itself
OutputNames == {"point_cloud", "textured_model", "printable_model", "model", "mesh"}

\* real-meshroom-processing.py: main, glob.glob(NAS_OUTPUT/*.*): every
\* file in the output folder, whichever run wrote it
output_files(fs, old) == old \/ (DOMAIN fs \cap OutputNames # {})

\* real-meshroom-processing.py: main, "SUCCESS: Created ..." or
\* "WARNING: No output files created"
CheckResults ==
    /\ script = "real" /\ pc = "check"
    /\ End(IF output_files(files, oldOutputs) THEN "Completed" ELSE "NoOutput")
    /\ UNCHANGED <<script, nasUp, photoCount, dirs, files, meshroom_path,
                   delegateOutcome, success, has_cluster, started, completed,
                   cancelStage, clock, entries, listing,
                   kubectl, running_pods, oldOutputs, runs, seed, discovery,
                   sim, gui, invocations, writeFault>>

\* meshroom-native-processing.py: submit_to_meshroom_cluster and the branch
\* of main on its result: `kubectl apply` fails (False) or not (True,
\* whatever the job does afterwards)
SubmitToCluster ==
    /\ script = "native" /\ pc = "submit"
    /\ files' = Write(files, "job", <<Line("job")>>)
    /\ \E applied \in BOOLEAN :
         IF applied
         THEN pc' = "ply" /\ UNCHANGED result
         ELSE End("Failed")
    /\ UNCHANGED <<script, nasUp, photoCount, dirs, meshroom_path,
                   delegateOutcome, success, has_cluster, started, completed,
                   cancelStage, clock, entries, listing,
                   kubectl, running_pods, oldOutputs, runs, seed, discovery,
                   sim, gui, invocations, writeFault>>

\* process-photos-simple.py: start_distributed_processing, and
\* real-meshroom-processing.py: main: os.makedirs of NAS_OUTPUT and NAS_TEMP,
\* which raises when the share is not there (the simple script comes here
\* only after it has found photos on the share)
MakeOutputDirs ==
    /\ script \in {"simple", "real"} /\ pc = "mkdirs"
    /\ IF ~nasUp
       THEN End("Crashed") /\ UNCHANGED dirs
       ELSE /\ dirs' = dirs \cup {"output_base", "temp"}
            /\ pc' = IF script = "simple" THEN "stages" ELSE "photos"
            /\ UNCHANGED result
    /\ UNCHANGED <<script, nasUp, photoCount, files, meshroom_path,
                   delegateOutcome, success, has_cluster, started, completed,
                   cancelStage, clock, entries, listing,
                   kubectl, running_pods, oldOutputs, runs, seed, discovery,
                   sim, gui, invocations, writeFault>>

\* NextStage that skips a step
NextStage_skip(s, k) == Stages(s)[Min(k + 2, Len(Stages(s)))]

\* the stage that follows when k stages have been started: the code of the
\* three simulations is straight-line, step k+1 follows step k
NextStage(s, k) == Stages(s)[k + 1]

\* a simulated stage begins: its "Step k/6" banner is printed. No stage
\* loop reads any cancellation flag.
StartStage ==
    /\ script \in {"actual", "realistic", "simple"} /\ pc = "stages"
    /\ Len(started) = Len(completed)
    /\ Len(started) < Len(Stages(script))
    /\ started' = Append(started, NextStage(script, Len(started)))
    /\ UNCHANGED <<script, nasUp, photoCount, pc, result, dirs, files,
                   meshroom_path, delegateOutcome, success, has_cluster,
                   completed, cancelStage, clock, entries, listing,
                   kubectl, running_pods, oldOutputs, runs, seed, discovery,
                   sim, gui, invocations, writeFault>>

\* a simulated stage ends: its progress loop has run out and the completion
\* line is printed; after the last stage the simulation returns
CompleteStage ==
    /\ script \in {"actual", "realistic", "simple"} /\ pc = "stages"
    /\ Len(started) = Len(completed) + 1
    /\ completed' = Append(completed, started[Len(started)])
    /\ pc' = IF Len(started) < Len(Stages(script)) THEN "stages"
             ELSE IF script = "simple" THEN "results" ELSE "ply"
    /\ UNCHANGED <<script, nasUp, photoCount, result, dirs, files,
                   meshroom_path, delegateOutcome, success, has_cluster,
                   started, cancelStage, clock, entries, listing,
                   kubectl, running_pods, oldOutputs, runs, seed, discovery,
                   sim, gui, invocations, writeFault>>

\* the caller asks for cancellation while a stage is running
\* (PipelineRun.cancelRequested of the specification; the scripts have no
\* such flag and nothing reads it)
RequestCancel ==
    /\ pc = "stages" /\ Len(started) = Len(completed) + 1
    /\ cancelStage = -1
    /\ cancelStage' = Len(completed)
    /\ UNCHANGED <<script, nasUp, photoCount, pc, result, dirs, files,
                   meshroom_path, delegateOutcome, success, has_cluster,
                   started, completed, clock, entries, listing,
                   kubectl, running_pods, oldOutputs, runs, seed, discovery,
                   sim, gui, invocations, writeFault>>

\* what is left of a file whose writing broke off
PartOf(content) == SubSeq(content, 1, Len(content) \div 2)

\* WriteArtifact inside a try that passes over the error
WriteArtifact_goesOn(name, content, next) ==
    /\ files' = IF writeFault.at = name THEN files ELSE Write(files, name, content)
    /\ pc' = next
    /\ UNCHANGED result

\* `with open(file, 'w') as f: f.write(content)` outside any try: when it
\* fails, open() has left no file or write() a part of it, and the
\* exception leaves main()
WriteArtifact(name, content, next) ==
    IF writeFault.at = name
    THEN /\ files' = IF writeFault.partial
                     THEN Write(files, name, PartOf(content)) ELSE files
         /\ End("Crashed")
    ELSE /\ files' = Write(files, name, content)
         /\ pc' = next
         /\ UNCHANGED result

\* the PLY file each script writes
PlyContent(s, n, sd) ==
    CASE s = "actual"    -> create_valid_ply_file(n, sd)
      [] s = "native"    -> NativePly(n, sd)
      [] s = "realistic" -> RealisticPly(n, sd)
      [] OTHER           -> create_simple_valid_ply

WritePly ==
    /\ script \in {"actual", "native", "realistic", "quick"} /\ pc = "ply"
    /\ WriteArtifact("ply", PlyContent(script, photoCount, seed), "obj")
    /\ dirs' = dirs \cup {"session"}
    /\ UNCHANGED <<script, nasUp, photoCount, meshroom_path,
                   delegateOutcome, success, has_cluster, started, completed,
                   cancelStage, clock, entries, listing,
                   kubectl, running_pods, oldOutputs, runs, seed, discovery,
                   sim, gui, invocations, writeFault>>

\* the OBJ file each script writes (quick-valid-3d.py: the pyramid first)
ObjContent(s, n, sd) ==
    CASE s = "actual"    -> create_valid_obj_file(n)
      [] s = "native"    -> NativeObj(n, sd)
      [] s = "realistic" -> RealisticObj(n, sd)
      [] OTHER           -> create_simple_valid_obj

WriteObj ==
    /\ script \in {"actual", "native", "realistic", "quick"} /\ pc = "obj"
    /\ WriteArtifact("obj", ObjContent(script, photoCount, seed),
                     CASE script = "actual" -> "summary"
                       [] script = "quick"  -> "obj2"
                       [] OTHER             -> "stl")
    /\ UNCHANGED <<script, nasUp, photoCount, dirs, meshroom_path,
                   delegateOutcome, success, has_cluster, started, completed,
                   cancelStage, clock, entries, listing,
                   kubectl, running_pods, oldOutputs, runs, seed, discovery,
                   sim, gui, invocations, writeFault>>

\* quick-valid-3d.py: main, create_better_valid_obj
WriteDetailedObj ==
    /\ script = "quick" /\ pc = "obj2"
    /\ WriteArtifact("obj_detailed", create_better_valid_obj, "stl")
    /\ UNCHANGED <<script, nasUp, photoCount, dirs, meshroom_path,
                   delegateOutcome, success, has_cluster, started, completed,
                   cancelStage, clock, entries, listing,
                   kubectl, running_pods, oldOutputs, runs, seed, discovery,
                   sim, gui, invocations, writeFault>>

\* the STL file each script writes
StlContent(s, n, sd) ==
    CASE s = "native"    -> NativeStl(n, sd)
      [] s = "realistic" -> RealisticStl(n, sd)
      [] OTHER           -> create_valid_stl

WriteStl ==
    /\ script \in {"native", "realistic", "quick"} /\ pc = "stl"
    /\ WriteArtifact("stl", StlContent(script, photoCount, seed), "summary")
    /\ UNCHANGED <<script, nasUp, photoCount, dirs, meshroom_path,
                   delegateOutcome, success, has_cluster, started, completed,
                   cancelStage, clock, entries, listing,
                   kubectl, running_pods, oldOutputs, runs, seed, discovery,
                   sim, gui, invocations, writeFault>>

\* the summary each script writes
SummaryContent(s, n, real) ==
    CASE s = "actual"    -> ActualSummary(n, real)
      [] s = "native"    -> NativeSummary(n)
      [] s = "realistic" -> RealisticSummary(n)
      [] OTHER           -> QuickSummary

\* the summary is written and main() prints its closing lines
WriteSummary ==
    /\ script \in {"actual", "native", "realistic", "quick"} /\ pc = "summary"
    /\ files' = Write(files, "summary",
                      SummaryContent(script, photoCount, meshroom_path /\ success))
    /\ End("Completed")
    /\ UNCHANGED <<script, nasUp, photoCount, dirs, meshroom_path,
                   delegateOutcome, success, has_cluster, started, completed,
                   cancelStage, clock, entries, listing,
                   kubectl, running_pods, oldOutputs, runs, seed, discovery,
                   sim, gui, invocations, writeFault>>

\* process-photos-simple.py: start_distributed_processing, the result files
WriteResults ==
    /\ script = "simple" /\ pc = "results"
    /\ files' = Write(Write(files, "results", SimpleResults(photoCount)),
                      "info", SimpleModelInfo(photoCount))
    /\ End("Completed")
    /\ UNCHANGED <<script, nasUp, photoCount, dirs, meshroom_path,
                   delegateOutcome, success, has_cluster, started, completed,
                   cancelStage, clock, entries, listing,
                   kubectl, running_pods, oldOutputs, runs, seed, discovery,
                   sim, gui, invocations, writeFault>>

Next ==
    \/ FindMeshroom
    \/ CheckClusterStatus
    \/ CreateSessionFolder
    \/ MakeTemp
    \/ GetPhotos
    \/ Prompt
    \/ RunRealMeshroom
    \/ CreateProject
    \/ RunProcessingScript
    \/ CheckResults
    \/ SubmitToCluster
    \/ MakeOutputDirs
    \/ StartStage
    \/ CompleteStage
    \/ RequestCancel
    \/ WritePly
    \/ WriteObj
    \/ WriteDetailedObj
    \/ WriteStl
    \/ WriteSummary
    \/ WriteResults

Spec == Init /\ [][Next]_vars

\* ------------------------------------------------------- session listing
\* An item under NAS_OUTPUT_BASE: `session` says it is a directory whose name
\* starts with "meshroom_session_", `name` is the second of its timestamp,
\* `mtime` its modification time in ticks, `nfiles` the files in it, and
\* `access` whether os.path.getmtime fails on it ("nostat"), os.listdir
\* fails on it ("nolist") or neither ("ok").
Item(session, name, mtime, nfiles, access) ==
    [session |-> session, name |-> name, mtime |-> mtime, nfiles |-> nfiles,
     access |-> access]

\* datetime.fromtimestamp(t).strftime("%Y-%m-%d %H:%M:%S"): the time cut to
\* whole seconds; such strings compare as the seconds do
FormatDate(t) == t \div TicksPerSecond

\* list_previous_sessions: the dict appended for a session directory (mtime
\* is kept beside it for the properties; the script keeps the date only)
SessionInfo(e) ==
    [name |-> e.name, date |-> FormatDate(e.mtime), mtime |-> e.mtime,
     files |-> IF e.access = "nolist" THEN 0 ELSE e.nfiles]

\* InsertByDate that puts the older entry first (reverse=True forgotten)
InsertByDate_ascending(sorted, x) ==
    LET later == {i \in 1..Len(sorted) : sorted[i].date > x.date}
        p     == IF later = {} THEN Len(sorted) + 1
                 ELSE CHOOSE i \in later : \A j \in later : i <= j
    IN  SubSeq(sorted, 1, p - 1) \o <<x>> \o SubSeq(sorted, p, Len(sorted))

\* sessions.sort(key=lambda x: x['date'], reverse=True), one element at a
\* time: x goes before the first entry with a smaller date, so entries with
\* equal dates keep the order they had (the sort is stable)
InsertByDate(sorted, x) ==
    LET older == {i \in 1..Len(sorted) : sorted[i].date < x.date}
        p     == IF older = {} THEN Len(sorted) + 1
                 ELSE CHOOSE i \in older : \A j \in older : i <= j
    IN  SubSeq(sorted, 1, p - 1) \o <<x>> \o SubSeq(sorted, p, Len(sorted))

RECURSIVE SortByDate(_)
SortByDate(seq) ==
    IF seq = <<>> THEN <<>>
    ELSE InsertByDate(SortByDate(SubSeq(seq, 1, Len(seq) - 1)), seq[Len(seq)])

IsSession(e) == e.session

\* list_previous_sessions on the items in the order os.listdir gives them:
\* an exception of os.path.getmtime leaves the loop and returns []
list_previous_sessions(items) ==
    LET found == SelectSeq(items, IsSession)
    IN  IF \E i \in 1..Len(found) : found[i].access = "nostat"
        THEN <<>>
        ELSE SortByDate([i \in 1..Len(found) |-> SessionInfo(found[i])])

\* file-system operations done so far on the output folder
OpsDone ==
    LET RECURSIVE Sum(_)
        Sum(k) == IF k = 0 THEN 0
                  ELSE Sum(k - 1) + 1 + entries[k].nfiles
                       + (IF entries[k].access = "ok" THEN 0 ELSE 1)
    IN  Sum(Len(entries))

InitSessions ==
    /\ script \in {"native", "realistic"}
    /\ nasUp = TRUE
    /\ photoCount = 0
    /\ pc = FirstPc(script)
    /\ result = "Running"
    /\ dirs = {}
    /\ files = EmptyFiles
    /\ meshroom_path = FALSE
    /\ delegateOutcome = "none"
    /\ success = FALSE
    /\ has_cluster = FALSE
    /\ started = <<>>
    /\ completed = <<>>
    /\ cancelStage = -1
    /\ clock = 0
    /\ entries = <<>>
    /\ listing = <<>>
    /\ kubectl = "ok"
    /\ running_pods = 0
    /\ oldOutputs = FALSE
    /\ runs = NoRuns
    /\ seed = 0
    /\ discovery = NoDiscovery
    /\ sim = NoSim
    /\ gui = NoGui
    /\ invocations = <<>>
    /\ writeFault = NoFault

\* time passes
Tick ==
    /\ clock < MaxClock
    /\ clock' = clock + 1
    /\ UNCHANGED <<entries, listing>>
    /\ UNCHANGED runVars

\* create_session_folder of some run: os.makedirs(session_path,
\* exist_ok=True) with the name of the current second; an existing directory
\* of that name is left as it is
CreateSessionDir ==
    /\ OpsDone < MaxOps
    /\ ~\E i \in 1..Len(entries) :
            entries[i].session /\ entries[i].name = FormatDate(clock)
    /\ entries' = Append(entries, Item(TRUE, FormatDate(clock), clock, 0, "ok"))
    /\ UNCHANGED <<clock, listing>>
    /\ UNCHANGED runVars

\* something else appears in the output folder (a file, or a folder of
\* another name such as quick_session_*)
AddOtherItem ==
    /\ OpsDone < MaxOps
    /\ entries' = Append(entries, Item(FALSE, FormatDate(clock), clock, 0, "ok"))
    /\ UNCHANGED <<clock, listing>>
    /\ UNCHANGED runVars

\* a run writes a file into its session folder: the folder's modification
\* time becomes the current time
WriteSessionFile ==
    /\ OpsDone < MaxOps
    /\ \E i \in 1..Len(entries) :
         /\ entries[i].session
         /\ entries' = [entries EXCEPT ![i].nfiles = @ + 1, ![i].mtime = clock]
    /\ UNCHANGED <<clock, listing>>
    /\ UNCHANGED runVars

\* a session folder becomes unreadable
MakeUnreadable ==
    /\ OpsDone < MaxOps
    /\ \E i \in 1..Len(entries), a \in {"nostat", "nolist"} :
         /\ entries[i].session /\ entries[i].access = "ok"
         /\ entries' = [entries EXCEPT ![i].access = a]
    /\ UNCHANGED <<clock, listing>>
    /\ UNCHANGED runVars

\* main() calls list_previous_sessions; os.listdir gives the items in an
\* arbitrary order
ListSessions ==
    /\ \E order \in Permutations(1..Len(entries)) :
         listing' = list_previous_sessions([i \in 1..Len(entries) |-> entries[order[i]]])
    /\ UNCHANGED <<clock, entries>>
    /\ UNCHANGED runVars

NextSessions ==
    \/ Tick
    \/ CreateSessionDir
    \/ AddOtherItem
    \/ WriteSessionFile
    \/ MakeUnreadable
    \/ ListSessions

SpecSessions == InitSessions /\ [][NextSessions]_vars

\* ---------------------------------------------------------- file readers
\* what a reader of a written file finds in it

\* positions at which a line of the file begins
LineStarts(c) == {i \in 1..Len(c) : i = 1 \/ c[i - 1].term = "NL"}

\* the record at i is a line of its own
OwnLine(c, i) ==
    /\ i \in 1..Len(c)
    /\ (i = 1 \/ c[i - 1].term = "NL")
    /\ (c[i].term = "NL" \/ i = Len(c))

Positions(c, kind) == {i \in 1..Len(c) : c[i].kind = kind}

\* PLY: the count of the 'element vertex' header line
DeclaredVertexCount(c) == c[CHOOSE i \in Positions(c, "element vertex") : TRUE].count

\* PLY: the lines after the 'end_header' line
VertexDataLines(c) ==
    LET h == CHOOSE i \in Positions(c, "end_header") : TRUE
    IN  {i \in LineStarts(c) : i > h}

\* OBJ: every face record refers to vertex records written before it
FaceRefsOk(c) ==
    LET vpos   == Positions(c, "v")
        fpos   == Positions(c, "f")
        nv     == Cardinality(vpos)
        firstf == CHOOSE i \in fpos : \A k \in fpos : i <= k
        vfirst == \A j \in vpos : j < firstf
    IN  \A i \in fpos :
            LET before == IF vfirst THEN nv
                          ELSE Cardinality({j \in vpos : j < i})
            IN  \A r \in 1..Len(c[i].refs) :
                    /\ c[i].refs[r] >= 1
                    /\ c[i].refs[r] <= nv
                    /\ c[i].refs[r] <= before

\* STL: the facet count each generator is to write for n photos
ExpectedFacets(s, n) ==
    CASE s = "native"    -> n * 50
      [] s = "realistic" -> mesh_faces(n)
      [] OTHER           -> 4

\* STL: a facet block begins at line i: facet normal, outer loop, three
\* vertex lines, endloop, endfacet, each a line of its own
FacetBlockAt(c, i) ==
    /\ i + 6 <= Len(c)
    /\ \A d \in 0..6 : OwnLine(c, i + d) /\ c[i + d].kind = Facet("NL", 0)[d + 1].kind

StlWellFormed(c, expected) ==
    /\ Len(c) >= 2
    /\ c[1].kind = "solid" /\ OwnLine(c, 1)
    /\ c[Len(c)].kind = "endsolid" /\ OwnLine(c, Len(c))
    /\ c[Len(c)].name = c[1].name /\ c[Len(c)].count = c[1].count
    /\ Cardinality({i \in LineStarts(c) : c[i].kind = "facet normal"}) = expected
    /\ \A i \in LineStarts(c) : c[i].kind = "facet normal" => FacetBlockAt(c, i)

Written(name) == name \in DOMAIN files

\* ---------------------------------------------------------------- claims

\* C1: for every photo count N >= 1 and each of the three PLY generators,
\* the count of the header line 'element vertex <count>' equals the number
\* of vertex data lines that follow 'end_header' in the written file.
Claim_C1_PlyDeclaredEqualsLines ==
    (script \in {"actual", "native", "realistic"} /\ Written("ply")) =>
        DeclaredVertexCount(files["ply"]) = Cardinality(VertexDataLines(files["ply"]))

\* C2: in every OBJ file written, each face record refers only to vertex
\* indices in 1..vertexCount, vertexCount being the number of 'v' records
\* of the file, and each vertex referred to was written before the face.
Thm_C2_ObjFaceRefs ==
    \A f \in {"obj", "obj_detailed"} : Written(f) => FaceRefsOk(files[f])

\* C2 witness: an OBJ file with face records has been written from photos
Wit_C2_ObjWritten ==
    /\ script = "native" /\ photoCount >= 1 /\ Written("obj")
    /\ Positions(files["obj"], "f") # {}

\* C3: every STL file written begins with a line 'solid <name>', ends with
\* 'endsolid <name>' for the same name, and holds as many 'facet normal'
\* blocks (three vertex lines inside one outer loop each) as expected.
Claim_C3_StlWellFormed ==
    Written("stl") => StlWellFormed(files["stl"], ExpectedFacets(script, photoCount))

\* C4: the face count the realistic run declares ('# Faces' of the OBJ,
\* 'Mesh faces' of the summary) equals the number of face records written
\* to the OBJ file.
Claim_C4_DeclaredFacesEqualsWritten ==
    (script = "realistic" /\ Written("obj")) =>
        LET c == files["obj"]
            n == Cardinality(Positions(c, "f"))
        IN  /\ c[CHOOSE i \in Positions(c, "# Faces") : TRUE].count = n
            /\ Written("summary") =>
                   LET m == files["summary"]
                   IN  m[CHOOSE i \in Positions(m, "Mesh faces") : TRUE].count = n

\* C5: a run that finds no photo ends with NoPhotosFound and has made no
\* directory and written no file.
Claim_C5_NoPhotosNoWrites ==
    result = "NoPhotosFound" => (dirs = {} /\ DOMAIN files = {})

IsPrefix(a, b) == Len(a) <= Len(b) /\ \A i \in 1..Len(a) : a[i] = b[i]

\* the stages run one at a time in the order of the list `all`, none
\* skipped or repeated, and all of them once the simulation has returned
RunsInOrder(all) ==
    /\ IsPrefix(started, all)
    /\ IsPrefix(completed, started)
    /\ Len(started) - Len(completed) \in {0, 1}
    /\ (started # <<>> /\ pc # "stages") => (started = all /\ completed = all)

Claim_C7_SixNamedStages ==
    script \in {"actual", "realistic", "simple"} => RunsInOrder(SixStages)

\* C7 as amended: simulate_realistic_processing and
\* process_photos_realistically go through exactly those six stages in that
\* order; start_distributed_processing goes through its own six steps
\* (FeatureExtraction, ImageMatching, StructureFromMotion,
\* DenseReconstruction, MeshGeneration, TextureMapping); in all three a
\* step starts only after the one before has completed, each step starts
\* once and none is skipped.
Thm_C7_StagesInOrder ==
    /\ script \in {"actual", "realistic"} => RunsInOrder(SixStages)
    /\ script = "simple" => RunsInOrder(SimpleSteps)
    /\ script \in {"native", "quick"} => started = <<>>

\* C7 witness: a simulation has run all its steps
Wit_C7_AllStagesDone ==
    script = "simple" /\ pc = "results" /\ Len(completed) = 6

Thm_C9_DelegateSuccessSkipsSimulation ==
    script = "actual" =>
        /\ delegateOutcome = "exit0" =>
               /\ started = <<>>
               /\ ~Written("ply") /\ ~Written("obj")
               /\ pc \in {"summary", "done"}
        /\ (pc = "done" /\ result = "Completed") =>
               /\ started # <<>> <=>
                      (~meshroom_path \/ delegateOutcome \in {"nonzero", "launch_exception"})
               /\ started = <<>> <=> (meshroom_path /\ delegateOutcome = "exit0")

\* C9 witness: a run whose delegate exited with 0 has ended
Wit_C9_DelegateSucceeded ==
    /\ script = "actual" /\ delegateOutcome = "exit0" /\ success
    /\ pc = "done" /\ result = "Completed" /\ Written("summary")

\* C10 as claimed: list_previous_sessions returns the sessions in strictly
\* descending order of modification time: of two adjacent entries the
\* earlier one has the strictly greater modification time.
Claim_C10_StrictlyDescendingMtime ==
    \A i \in 1..(Len(listing) - 1) : listing[i].mtime > listing[i + 1].mtime

\* C10 as amended: list_previous_sessions returns the sessions in descending
\* order of the modification date formatted to the second: of two adjacent
\* entries the earlier one's date is not smaller than the later one's.
Thm_C10_DescendingDate ==
    \A i \in 1..(Len(listing) - 1) : listing[i].date >= listing[i + 1].date

\* C10 witness: a listing of sessions modified in different seconds
Wit_C10_ListedTwoSeconds ==
    Len(listing) >= 2 /\ listing[1].date > listing[Len(listing)].date

\* ------------------------------------------------- claims on the listing
\* a session folder whose modification time and contents can both be read
Readable(e) == e.session /\ e.access = "ok"

\* the names a listing holds
ListedNames(l) == {l[j].name : j \in 1..Len(l)}

\* C11: when exactly one session entry under the base path is unreadable
\* (its modification time or its contents cannot be read), a call of
\* list_previous_sessions returns every readable session, each once, and
\* not the unreadable one.
Claim_C11_SkipsUnreadable ==
    [][(/\ ListSessions
        /\ Cardinality({i \in 1..Len(entries) :
                          entries[i].session /\ ~Readable(entries[i])}) = 1)
       => /\ ListedNames(listing') =
               {entries[i].name : i \in {k \in 1..Len(entries) : Readable(entries[k])}}
          /\ Len(listing') = Cardinality(ListedNames(listing'))]_vars

\* ---------------------------------------------- claims on the cluster probe
\* C12: a negative or failed readiness probe (too few ready nodes, the
\* status command exiting non-zero or being unavailable) never ends the run:
\* no run of a script that probes the cluster ends as Crashed or as
\* ClusterNotReady.
Claim_C12_ProbeNeverAborts ==
    script \in {"native", "realistic", "simple"}
        => result \notin {"Crashed", "ClusterNotReady"}

\* the probe of this run has been made and the run went on
Probed == script \in {"native", "realistic", "simple"} /\ pc \notin {"probe", "done"}

ReachedStorage ==
    /\ script \in {"actual", "native", "realistic", "quick", "real"}
    /\ pc = "done" /\ kubectl # "missing"

TempDir == [temp |-> TRUE, second |-> -1]
SessionDir(s) == [temp |-> FALSE, second |-> s]

\* the files a script writes, in order: in NAS_TEMP ("temp") or in its
\* session folder ("session"). The names of a script's files are the same in
\* every run with the same photos.
FilesOf(s) ==
    CASE s = "native" ->
           <<<<"temp", "full_dataset.mg">>, <<"temp", "processing-job.yaml">>,
             <<"session", "ply">>, <<"session", "obj">>, <<"session", "stl">>,
             <<"session", "processing_summary.txt">>>>
      [] s = "realistic" ->
           <<<<"session", "meshroom_project.json">>,
             <<"session", "ply">>, <<"session", "obj">>, <<"session", "stl">>,
             <<"session", "processing_summary.txt">>>>
      [] OTHER ->
           <<<<"session", "meshroom_project.mg">>,
             <<"session", "ply">>, <<"session", "obj">>,
             <<"session", "processing_summary.txt">>>>

\* the path of the k-th file of run r
PathOf(r, k) ==
    LET f == FilesOf(runs[r].script)[k]
    IN  [dir  |-> IF f[1] = "temp" THEN TempDir ELSE SessionDir(runs[r].session),
         file |-> f[2]]

\* the paths run r has written
Wrote(r) == {PathOf(r, k) : k \in 1..runs[r].step}

\* os.makedirs(path, exist_ok=...)
makedirs(exists, exist_ok) ==
    IF exists /\ ~exist_ok THEN "FileExistsError" ELSE "ok"

InitConcurrent ==
    /\ script = "actual"
    /\ nasUp = TRUE
    /\ photoCount = 1
    /\ pc = FirstPc(script)
    /\ result = "Running"
    /\ dirs = {}
    /\ files = EmptyFiles
    /\ meshroom_path = FALSE
    /\ delegateOutcome = "none"
    /\ success = FALSE
    /\ has_cluster = FALSE
    /\ started = <<>>
    /\ completed = <<>>
    /\ cancelStage = -1
    /\ clock = 0
    /\ entries = <<>>
    /\ listing = <<>>
    /\ kubectl = "ok"
    /\ running_pods = 0
    /\ oldOutputs = FALSE
    /\ seed = 0
    /\ discovery = NoDiscovery
    /\ sim = NoSim
    /\ gui = NoGui
    /\ invocations = <<>>
    /\ writeFault = NoFault
    /\ runs \in [Runs -> [script : {"actual", "native", "realistic"},
                          session : {-1}, step : {0}]]

\* create_session_folder of run r: the folder is named after the current
\* second and made with os.makedirs(session_path, exist_ok=True)
RunCreateSession(r) ==
    /\ runs[r].session = -1
    /\ LET name   == FormatDate(clock)
           exists == \E q \in Runs : runs[q].session = name
       IN  /\ makedirs(exists, TRUE) = "ok"
           /\ runs' = [runs EXCEPT ![r].session = name]
    /\ UNCHANGED <<script, nasUp, photoCount, pc, result, dirs, files,
                   meshroom_path, delegateOutcome, success, has_cluster,
                   started, completed, cancelStage, clock, entries, listing,
                   kubectl, running_pods, oldOutputs, seed, discovery, sim, gui, invocations, writeFault>>

\* run r writes its next file (open(path, 'w'): an existing file of that
\* path is replaced)
RunWriteFile(r) ==
    /\ runs[r].session # -1
    /\ runs[r].step < Len(FilesOf(runs[r].script))
    /\ runs' = [runs EXCEPT ![r].step = @ + 1]
    /\ UNCHANGED <<script, nasUp, photoCount, pc, result, dirs, files,
                   meshroom_path, delegateOutcome, success, has_cluster,
                   started, completed, cancelStage, clock, entries, listing,
                   kubectl, running_pods, oldOutputs, seed, discovery, sim, gui, invocations, writeFault>>

NextConcurrent ==
    \/ Tick
    \/ \E r \in Runs : RunCreateSession(r)
    \/ \E r \in Runs : RunWriteFile(r)

SpecConcurrent == InitConcurrent /\ [][NextConcurrent]_vars

\* C15: create_session_folder never silently reuses an existing directory:
\* of two runs that call it within the same second, at most one obtains the
\* session directory of that second.
Claim_C15_ExclusiveSessionDir ==
    \A r1, r2 \in Runs :
        (r1 # r2 /\ runs[r1].session # -1) => runs[r1].session # runs[r2].session

\* C16: two concurrent runs whose sessions were created in different seconds
\* write no file path in common: every file of a run lies under its own
\* session directory.
Claim_C16_NoSharedPath ==
    \A r1, r2 \in Runs :
        (/\ r1 # r2
         /\ runs[r1].session # -1 /\ runs[r2].session # -1
         /\ runs[r1].session # runs[r2].session)
        => /\ Wrote(r1) \cap Wrote(r2) = {}
           /\ \A p \in Wrote(r1) : p.dir = SessionDir(runs[r1].session)

\* ------------------------------------------------- claims on the counts
\* the counts a PLY file declares and emits
PlyCounts(c) == <<DeclaredVertexCount(c), Cardinality(Positions(c, "vertex data"))>>

\* the counts an OBJ file declares (if it does) and emits
ObjCounts(c) ==
    <<{c[i].count : i \in Positions(c, "# Faces")},
      Cardinality(Positions(c, "v")), Cardinality(Positions(c, "f"))>>

\* the count of facets an STL file holds
StlCounts(c) == Cardinality(Positions(c, "facet normal"))

\* C17: for a fixed photo count N, the files of this run declare and emit
\* the same point, vertex and face/facet counts as the files of any other
\* run of the same script on N photos, whatever numbers that run draws.
Thm_C17_CountsDependOnNOnly ==
    script \in {"actual", "native", "realistic"} =>
        \A sd \in Seeds \ {seed} :
            /\ Written("ply") =>
                  PlyCounts(files["ply"]) = PlyCounts(PlyContent(script, photoCount, sd))
            /\ Written("obj") =>
                  ObjCounts(files["obj"]) = ObjCounts(ObjContent(script, photoCount, sd))
            /\ Written("stl") =>
                  StlCounts(files["stl"]) = StlCounts(StlContent(script, photoCount, sd))

\* a run has written all its models with numbers another run does not draw
Wit_C17_OtherNumbersSameCounts ==
    /\ script = "native" /\ photoCount = MaxPhotos /\ seed = 1
    /\ Written("ply") /\ Written("obj") /\ Written("stl")
    /\ files["ply"] # PlyContent(script, photoCount, 0)
    /\ files["stl"] # StlContent(script, photoCount, 0)

\* ------------------------------------------------- claims on a whole run
\* the model files among the files of the run
ArtifactNames == {"ply", "obj", "obj_detailed", "stl"}
Artifacts == DOMAIN files \cap ArtifactNames

\* the files and the photos a summary lists
ListedFiles(c) == {c[i].name : i \in Positions(c, "file")}
ListedPhotos(c) == {c[i].count : i \in Positions(c, "photo")}

\* a synthetic run on 3 photos without a delegate has ended without being
\* declined; where the script probes the cluster, one node was ready
EndedSyntheticOnThree ==
    /\ script \in {"actual", "realistic"}
    /\ photoCount = 3 /\ ~meshroom_path
    /\ (script = "realistic" => kubectl = "ok" /\ running_pods = 1)
    /\ pc = "done" /\ result # "Cancelled"

Stems == {1, 2}
Exts == {"jpg", "png", "heic", "txt"}
Cases == {"lower", "upper", "mixed"}

InputFiles == [stem : Stems, ext : Exts, case : Cases, converted : {FALSE}]

\* two names that differ in letter case only
SameName(f, g) == f.stem = g.stem /\ f.ext = g.ext /\ f.converted = g.converted

\* the folders of at most MaxFiles files; a case-insensitive file system
\* holds one file for the names that differ in case only
RECURSIVE FoldersOfAtMost(_)
FoldersOfAtMost(k) ==
    IF k = 0 THEN {{}}
    ELSE LET smaller == FoldersOfAtMost(k - 1)
         IN  smaller \cup {F \cup {f} : F \in smaller, f \in InputFiles}

Folders(ci) ==
    {F \in FoldersOfAtMost(MaxFiles) :
        ci => \A f, g \in F : SameName(f, g) => f = g}

\* the order of the paths as strings: input folder before CONVERTED_DIR,
\* then the stem, then the extension, upper-case letters before lower-case
ExtRank(e) == CASE e = "heic" -> 0 [] e = "jpg" -> 1 [] e = "png" -> 2 [] OTHER -> 3

PathKey(f) ==
    (IF f.converted THEN 10000 ELSE 0) + f.stem * 100
    + (IF f.case = "lower" THEN 50 ELSE 0) + ExtRank(f.ext) * 10
    + (IF f.case = "mixed" THEN 1 ELSE 0)

\* sorted(list): insertion of x after the entries that are not greater
InsertByPath(sorted, x) ==
    LET greater == {i \in 1..Len(sorted) : PathKey(sorted[i]) > PathKey(x)}
        p       == IF greater = {} THEN Len(sorted) + 1
                   ELSE CHOOSE i \in greater : \A j \in greater : i <= j
    IN  SubSeq(sorted, 1, p - 1) \o <<x>> \o SubSeq(sorted, p, Len(sorted))

RECURSIVE SortByPath(_)
SortByPath(seq) ==
    IF seq = <<>> THEN <<>>
    ELSE InsertByPath(SortByPath(SubSeq(seq, 1, Len(seq) - 1)), seq[Len(seq)])

\* a set as a list, in some order
RECURSIVE ListOf(_)
ListOf(S) ==
    IF S = {} THEN <<>>
    ELSE LET x == CHOOSE y \in S : TRUE IN <<x>> \o ListOf(S \ {x})

\* list(set(list))
Dedupe(seq) == ListOf({seq[i] : i \in 1..Len(seq)})

\* glob.glob(os.path.join(NAS_INPUT, '*.' + ext)) with ext spelled in lower
\* or upper case: on a case-insensitive file system the pattern matches
\* whatever the case of the file's extension
Glob(F, ci, ext, case) ==
    ListOf({f \in F : ~f.converted /\ f.ext = ext /\ (ci \/ f.case = case)})

\* the matches of the lower-case and of the upper-case pattern, appended
GlobBoth(F, ci, ext) == Glob(F, ci, ext, "lower") \o Glob(F, ci, ext, "upper")

\* real-meshroom-processing.py: convert_heic_to_jpg: one JPG in
\* CONVERTED_DIR for every match of *.heic and of *.HEIC, when the
\* conversion works
convert_heic_to_jpg(F, ci, works) ==
    LET heic_files == GlobBoth(F, ci, "heic")
    IN  IF works
        THEN [i \in 1..Len(heic_files) |->
                 [stem |-> heic_files[i].stem, ext |-> "jpg", case |-> "lower",
                  converted |-> TRUE]]
        ELSE <<>>

\* the photo discovery of each script
get_all_photos(F, ci) ==
    SortByPath(Dedupe(GlobBoth(F, ci, "jpg") \o GlobBoth(F, ci, "png")
                      \o GlobBoth(F, ci, "heic")))

list_input_photos_simple(F, ci) ==
    SortByPath(Dedupe(GlobBoth(F, ci, "jpg") \o GlobBoth(F, ci, "png")))

list_input_photos(F, ci) ==
    SortByPath(GlobBoth(F, ci, "jpg") \o GlobBoth(F, ci, "png"))

get_all_photos_real(F, ci, works) ==
    SortByPath(GlobBoth(F, ci, "jpg") \o convert_heic_to_jpg(F, ci, works))

DiscoveryScripts == {"actual", "native", "realistic", "simple", "process", "real"}

Discovered(s, d) ==
    CASE s = "simple"  -> list_input_photos_simple(d.folder, d.caseInsensitive)
      [] s = "process" -> list_input_photos(d.folder, d.caseInsensitive)
      [] s = "real"    -> get_all_photos_real(d.folder, d.caseInsensitive, d.converts)
      [] OTHER         -> get_all_photos(d.folder, d.caseInsensitive)

\* the extensions a script looks for
Supported(s) ==
    CASE s \in {"simple", "process"} -> {"jpg", "png"}
      [] s = "real"                  -> {"jpg"}
      [] OTHER                       -> {"jpg", "png", "heic"}

InitPhotos ==
    /\ script \in DiscoveryScripts
    /\ nasUp = TRUE
    /\ photoCount = 0
    /\ pc = "photos"
    /\ result = "Running"
    /\ dirs = {}
    /\ files = EmptyFiles
    /\ meshroom_path = FALSE
    /\ delegateOutcome = "none"
    /\ success = FALSE
    /\ has_cluster = FALSE
    /\ started = <<>>
    /\ completed = <<>>
    /\ cancelStage = -1
    /\ clock = 0
    /\ entries = <<>>
    /\ listing = <<>>
    /\ kubectl = "ok"
    /\ running_pods = 0
    /\ oldOutputs = FALSE
    /\ runs = NoRuns
    /\ seed = 0
    /\ sim = NoSim
    /\ gui = NoGui
    /\ invocations = <<>>
    /\ writeFault = NoFault
    /\ \E ci \in BOOLEAN, works \in BOOLEAN :
         /\ (~works => script = "real")
         /\ \E F \in Folders(ci) :
              discovery = [folder |-> F, caseInsensitive |-> ci, converts |-> works,
                           done |-> FALSE, photos |-> <<>>]

\* the script calls its photo discovery
DiscoverPhotos ==
    /\ ~discovery.done
    /\ discovery' = [discovery EXCEPT !.done = TRUE,
                                      !.photos = Discovered(script, discovery)]
    /\ UNCHANGED <<script, nasUp, photoCount, pc, result, dirs, files,
                   meshroom_path, delegateOutcome, success, has_cluster,
                   started, completed, cancelStage, clock, entries, listing,
                   kubectl, running_pods, oldOutputs, runs, seed, sim, gui, invocations, writeFault>>

NextPhotos == DiscoverPhotos

SpecPhotos == InitPhotos /\ [][NextPhotos]_vars

\* C19: the PhotoSet a discovery returns holds each file at most once (also
\* when a file matches both the lower-case and the upper-case pattern of
\* its extension), holds every file of a supported extension whatever the
\* letter case of the extension, and is sorted ascending by path.
Claim_C19_PhotoSetDedupedCaseBlindSorted ==
    discovery.done =>
        LET p == discovery.photos
        IN  /\ \A i, j \in 1..Len(p) : i < j => p[i] # p[j]
            /\ \A i, j \in 1..Len(p) : i < j => PathKey(p[i]) <= PathKey(p[j])
            /\ \A f \in discovery.folder :
                  f.ext \in Supported(script) => \E i \in 1..Len(p) : p[i] = f


\* ------------------------------------------------- success needs artifacts
\* the delegate process of the run ended in failure or timed out
DelegateFailed == delegateOutcome \in {"nonzero", "launch_exception", "timeout"}

\* model files this run wrote, by a real or by a synthetic stage sequence
Produced == DOMAIN files \cap (ArtifactNames \cup OutputNames)

\* C20: a run that reaches its end never reports success when its delegate
\* ended in failure or timed out and the run produced no artifact.
Claim_C20_NoSuccessWithoutArtifacts ==
    (pc = "done" /\ DelegateFailed /\ Produced = {}) => result # "Completed"


\* ------------------------------------------------------------ termination
\* The run under a scheduler that always lets it take its next step: a run
\* that does not go on is waiting in a call that has not returned.
SpecLive == Init /\ [][Next]_vars /\ WF_vars(Next)

\* C21: every started run eventually reaches a terminal state, also when
\* the delegate process never exits or the cluster status query never
\* returns.
Claim_C21_EveryRunEnds == <>(pc = "done")


\* ----------------------------------------------- synthetic stage sequence
\* actual-meshroom-processing.py: simulate_realistic_processing and
\* realistic-meshroom-processing.py: process_photos_realistically, one loop
\* iteration at a time. Times are kept in tenths of a second, the unit of
\* the realistic script's multipliers (0.5, 0.3, 0.4, 0.6 seconds a photo).
SimScripts == {"actual", "realistic"}

Max(a, b) == IF a > b THEN a ELSE b

\* actual: floor and seconds a photo of max(floor, photo_count * k), the step
\* of range(0, time, step) (also the sleep of one iteration), and the
\* iterations from one notification to the next
ActualStages ==
    <<[floor |-> 120, perPhoto |-> 3,  step |-> 1,  every |-> 10],
      [floor |-> 480, perPhoto |-> 15, step |-> 30, every |-> 1],
      [floor |-> 300, perPhoto |-> 8,  step |-> 30, every |-> 1],
      [floor |-> 300, perPhoto |-> 10, step |-> 45, every |-> 1],
      [floor |-> 600, perPhoto |-> 20, step |-> 60, every |-> 1],
      [floor |-> 180, perPhoto |-> 5,  step |-> 30, every |-> 1]>>

\* realistic: floor (tenths of a second) and tenths of a second a photo of
\* max(len(photos) * k, floor) in stages 2..5
RealisticStages ==
    <<[floor |-> 0,  perPhoto |-> 0], [floor |-> 50, perPhoto |-> 5],
      [floor |-> 40, perPhoto |-> 3], [floor |-> 60, perPhoto |-> 4],
      [floor |-> 80, perPhoto |-> 6], [floor |-> 0,  perPhoto |-> 0]>>

\* realistic: the time.sleep calls of stages 1 and 6, which have no loop
FixedSleeps(k) == IF k = 1 THEN <<3, 2, 2>> ELSE <<3, 4, 2>>

HasLoop(s, k) == s = "actual" \/ k \in 2..5

\* stage_time without the floor
stage_time_noFloor(s, k, n) ==
    IF s = "actual" THEN 10 * n * ActualStages[k].perPhoto
    ELSE n * RealisticStages[k].perPhoto

\* init_time, feature_time, match_time, sfm_time, dense_time, mesh_time: the
\* duration the script computes for a stage with a loop, in tenths of a second
stage_time(s, k, n) ==
    IF s = "actual"
    THEN 10 * Max(ActualStages[k].floor, n * ActualStages[k].perPhoto)
    ELSE Max(n * RealisticStages[k].perPhoto, RealisticStages[k].floor)

\* seconds one iteration of the stage's loop sleeps
StepSeconds(s, k) == IF s = "actual" THEN ActualStages[k].step ELSE 1

\* the value of the loop variable in iteration j (counted from 0)
LoopVar(s, k, j) == j * StepSeconds(s, k)

\* range(0, time, step) and range(int(time)): iteration j takes place
InRange(s, k, n, j) ==
    IF s = "actual" THEN 10 * LoopVar(s, k, j) < stage_time(s, k, n)
    ELSE j < stage_time(s, k, n) \div 10

\* int(x) of a positive x computed in binary floating point, x being
\* num / den exactly: where x is a whole number the floating-point product
\* can fall just below it, and int() then gives one less
IntOf(num, den) ==
    IF num > 0 /\ num % den = 0 THEN {num \div den - 1, num \div den}
    ELSE {num \div den}

\* f"{x:.0f}" of x = num / den: the nearest whole number; half-way the
\* floating-point value decides
Printed(num, den) ==
    LET q == num \div den
        r == num % den
    IN  IF 2 * r < den THEN {q}
        ELSE IF 2 * r > den THEN {q + 1}
        ELSE {q, q + 1}

\* Percent taken of the floor of the stage and not of its duration
Percent_ofFloor(s, k, n, j) ==
    IF s = "actual"
    THEN Printed(100 * LoopVar(s, k, j), ActualStages[k].floor)
    ELSE Printed(1000 * (j + 1), RealisticStages[k].floor)

\* the percent of the notification of iteration j: (i / time) * 100 in the
\* actual script, (i + 1) / time * 100 in the realistic one

Percent(s, k, n, j) ==
    IF s = "actual"
    THEN Printed(1000 * LoopVar(s, k, j), stage_time(s, k, n))
    ELSE Printed(1000 * (j + 1), stage_time(s, k, n))

\* the metric of the notification of iteration j; {-1} where the
\* notification has none
Metric(s, k, n, j) ==
    LET i == LoopVar(s, k, j)
        T == stage_time(s, k, n)
    IN  IF s = "actual"
        THEN CASE k \in {2, 5} -> IntOf(10 * i * n, T)
               [] k = 3        -> IntOf(10 * i * n * (n - 1), 2 * T)
               [] k = 4        -> IntOf(10 * i * n * 500, T)
               [] OTHER        -> {-1}
        ELSE CASE k = 2 -> {j + 1}
               [] k = 3 -> IntOf((j + 1) * n * 7, 10)
               [] k = 4 -> {(j + 1) * n * 150}
               [] k = 5 -> IntOf(10 * (j + 1) * n, T)
               [] OTHER -> {-1}

\* the total the stage prints when it completes, for the stages whose
\* notifications count the same thing; -1 for the others
StageTotal(s, k, n) ==
    IF s = "actual"
    THEN (IF k = 2 THEN n ELSE -1)
    ELSE CASE k = 3 -> n * 3
           [] k = 4 -> sparse_points(n)
           [] OTHER -> -1

NoNote == [percent |-> -1, metric |-> -1]
NoStage == [stage |-> 0, slept |-> 0, total |-> -1, shown |-> NoNote]

InitStages ==
    /\ script \in SimScripts
    /\ nasUp = TRUE
    /\ photoCount = 0
    /\ pc = "stages"
    /\ result = "Running"
    /\ dirs = {}
    /\ files = EmptyFiles
    /\ meshroom_path = FALSE
    /\ delegateOutcome = "none"
    /\ success = FALSE
    /\ has_cluster = FALSE
    /\ started = <<>>
    /\ completed = <<>>
    /\ cancelStage = -1
    /\ clock = 0
    /\ entries = <<>>
    /\ listing = <<>>
    /\ kubectl = "ok"
    /\ running_pods = 0
    /\ oldOutputs = FALSE
    /\ runs = NoRuns
    /\ seed = 0
    /\ discovery = NoDiscovery
    /\ gui = NoGui
    /\ invocations = <<>>
    /\ writeFault = NoFault
    /\ \E n \in 1..MaxSimPhotos :
         sim = [script |-> script, n |-> n, stage |-> 1, i |-> 0, slept |-> 0,
                prev |-> NoNote, cur |-> NoNote, last |-> NoStage]

SimUnchanged ==
    UNCHANGED <<script, nasUp, photoCount, pc, result, dirs, files,
                meshroom_path, delegateOutcome, success, has_cluster,
                started, completed, cancelStage, clock, entries, listing,
                kubectl, running_pods, oldOutputs, runs, seed, discovery, gui, invocations, writeFault>>

\* one iteration of the loop of the current stage: the notification, if
\* this iteration prints one, and the sleep
StageStep ==
    /\ sim.stage \in 1..6 /\ HasLoop(sim.script, sim.stage)
    /\ InRange(sim.script, sim.stage, sim.n, sim.i)
    /\ LET s == sim.script
           k == sim.stage
           notifies == s = "realistic" \/ sim.i % ActualStages[k].every = 0
       IN  \E p \in Percent(s, k, sim.n, sim.i), m \in Metric(s, k, sim.n, sim.i) :
             sim' = [sim EXCEPT
                       !.i = @ + 1,
                       !.slept = @ + StepSeconds(s, k),
                       !.prev = IF notifies THEN sim.cur ELSE @,
                       !.cur = IF notifies THEN [percent |-> p, metric |-> m]
                               ELSE @]
    /\ SimUnchanged

\* realistic, stages 1 and 6: one message and its time.sleep
FixedStep ==
    /\ sim.stage \in 1..6 /\ ~HasLoop(sim.script, sim.stage)
    /\ sim.i < Len(FixedSleeps(sim.stage))
    /\ sim' = [sim EXCEPT !.i = @ + 1,
                          !.slept = @ + FixedSleeps(sim.stage)[sim.i + 1]]
    /\ SimUnchanged

\* the loop is over: the stage prints its completion and the next begins
StageDone ==
    /\ sim.stage \in 1..6
    /\ IF HasLoop(sim.script, sim.stage)
       THEN ~InRange(sim.script, sim.stage, sim.n, sim.i)
       ELSE sim.i = Len(FixedSleeps(sim.stage))
    /\ sim' = [sim EXCEPT
                 !.last = [stage |-> sim.stage, slept |-> sim.slept,
                           total |-> StageTotal(sim.script, sim.stage, sim.n),
                           shown |-> sim.cur],
                 !.stage = @ + 1, !.i = 0, !.slept = 0,
                 !.prev = NoNote, !.cur = NoNote]
    /\ SimUnchanged

NextStages == StageStep \/ FixedStep \/ StageDone

SpecStages == InitStages /\ [][NextStages]_vars


\* ------------------------------------------------------- stage durations
RECURSIVE SumSeq(_)
SumSeq(q) == IF q = <<>> THEN 0 ELSE q[1] + SumSeq(Tail(q))

\* max(floorSeconds(stage), N * perPhotoSeconds(stage)) in tenths of a
\* second, the sleeps of a stage without a loop being its floor
StageMax(s, k, n) ==
    IF HasLoop(s, k) THEN stage_time(s, k, n) ELSE 10 * SumSeq(FixedSleeps(k))

\* the floor of a stage in tenths of a second
StageFloor(s, k) ==
    IF s = "actual" THEN 10 * ActualStages[k].floor
    ELSE IF HasLoop(s, k) THEN RealisticStages[k].floor
    ELSE 10 * SumSeq(FixedSleeps(k))

\* the seconds a stage takes: the actual script sleeps whole steps until
\* the loop variable has reached the duration, the realistic script sleeps
\* the whole seconds of the duration
StageSeconds(s, k, n) ==
    IF s = "actual"
    THEN LET step == ActualStages[k].step
             T    == stage_time(s, k, n) \div 10
         IN  step * ((T + step - 1) \div step)
    ELSE StageMax(s, k, n) \div 10

\* a stage of the sequence has just completed
StageCompleted == sim.last.stage \in 1..6

\* C22 (as stated): the duration of each of the six stages equals
\* max(floorSeconds(stage), N * perPhotoSeconds(stage)), for every N >= 1.
Claim_C22_DurationIsMax ==
    StageCompleted =>
        10 * sim.last.slept = StageMax(sim.script, sim.last.stage, sim.n)

\* C22 (amended): the duration a stage computes is max(floor, N * per
\* photo); the stage takes that duration rounded up to whole notification
\* steps in the actual script and cut to whole seconds in the realistic
\* script; no stage is shorter than its floor and the time a stage takes
\* does not decrease when N grows.
Thm_C22_DurationRoundedMax ==
    StageCompleted =>
        LET s == sim.script
            k == sim.last.stage
            d == sim.last.slept
            T == StageMax(s, k, sim.n)
        IN  /\ d = StageSeconds(s, k, sim.n)
            /\ (s = "actual" =>
                  T <= 10 * d /\ 10 * d < T + 10 * ActualStages[k].step)
            /\ (s = "realistic" => 10 * d <= T /\ T < 10 * d + 10)
            /\ 10 * d >= StageFloor(s, k)
            /\ \A m \in 1..sim.n : StageSeconds(s, k, m) <= d

\* a stage has completed with so many photos that it has left its floor
Wit_C22_StageAboveFloor ==
    /\ StageCompleted
    /\ 10 * sim.last.slept > StageFloor(sim.script, sim.last.stage)
    /\ StageMax(sim.script, sim.last.stage, sim.n)
         > StageFloor(sim.script, sim.last.stage)


\* ------------------------------------------------- progress notifications
\* C23: within a synthetic stage, the percent of every progress
\* notification lies in [0, 100], and from one notification to the next of
\* the same stage neither the percent nor the stage's metric decreases, for
\* every N >= 1.
Thm_C23_ProgressMonotone ==
    /\ (sim.cur # NoNote => sim.cur.percent \in 0..100)
    /\ (sim.cur # NoNote /\ sim.prev # NoNote =>
          /\ sim.prev.percent <= sim.cur.percent
          /\ sim.prev.metric <= sim.cur.metric)

\* a stage has printed two notifications, the second with a larger percent
\* and a larger metric than the first
Wit_C23_SecondNotificationHigher ==
    /\ sim.cur # NoNote /\ sim.prev # NoNote
    /\ sim.prev.percent < sim.cur.percent
    /\ sim.prev.metric >= 0 /\ sim.prev.metric < sim.cur.metric


\* C27: the metric of a progress notification of a stage (pairs analysed,
\* 3D points) never exceeds the total the same stage prints when it
\* completes (matching photo pairs, sparse points), for every N >= 1.
Claim_C27_MetricWithinTotal ==
    (sim.stage \in 1..6 /\ sim.cur # NoNote
     /\ StageTotal(sim.script, sim.stage, sim.n) >= 0) =>
        sim.cur.metric <= StageTotal(sim.script, sim.stage, sim.n)


\* ------------------------------------------------------- delegate command
\* Runs of actual-meshroom-processing.py on up to MaxDelegatePhotos photos
InitDelegate ==
    /\ script = "actual"
    /\ nasUp \in BOOLEAN
    /\ photoCount \in 0..MaxDelegatePhotos
    /\ (~nasUp => photoCount = 0)
    /\ pc = FirstPc(script)
    /\ result = "Running"
    /\ dirs = {}
    /\ files = EmptyFiles
    /\ meshroom_path = FALSE
    /\ delegateOutcome = "none"
    /\ success = FALSE
    /\ has_cluster = FALSE
    /\ started = <<>>
    /\ completed = <<>>
    /\ cancelStage = -1
    /\ clock = 0
    /\ entries = <<>>
    /\ listing = <<>>
    /\ kubectl = "ok"
    /\ running_pods = 0
    /\ oldOutputs = FALSE
    /\ runs = NoRuns
    /\ seed = 0
    /\ discovery = NoDiscovery
    /\ sim = NoSim
    /\ gui = NoGui
    /\ invocations = <<>>
    /\ writeFault = NoFault

NextDelegate ==
    \/ FindMeshroom
    \/ CreateSessionFolder
    \/ GetPhotos
    \/ Prompt
    \/ RunRealMeshroom
    \/ StartStage
    \/ CompleteStage
    \/ RequestCancel
    \/ WritePly
    \/ WriteObj
    \/ WriteSummary

SpecDelegate == InitDelegate /\ [][NextDelegate]_vars

\* the photo list of the run, the photos as their positions in it
PhotoList == [i \in 1..photoCount |-> i]

\* the delegate was started exactly once when the run has found the
\* executable and has got beyond the point where it starts it, and not at
\* all before
InvokedOnce ==
    /\ Len(invocations) <= 1
    /\ (delegateOutcome # "none" => Len(invocations) = 1)
    /\ (pc = "done" /\ result = "Completed" /\ meshroom_path =>
          Len(invocations) = 1)

\* C24 (as stated): the delegate executable is invoked exactly once per run
\* with the full photo path list (every discovered photo, for any N) and
\* the run's output directory.
Claim_C24_InvokedWithAllPhotos ==
    /\ InvokedOnce
    /\ \A k \in 1..Len(invocations) :
          /\ invocations[k].input = PhotoList
          /\ invocations[k].output = "meshroom_output"

\* C24 (amended): the delegate executable is invoked exactly once per run
\* with the first 10 photos of the sorted photo list (all of them when
\* there are at most 10), the meshroom_output directory of the session and
\* the project file, which lists every photo.
Thm_C24_InvokedWithFirstTen ==
    /\ InvokedOnce
    /\ \A k \in 1..Len(invocations) :
          /\ invocations[k].input = SubSeq(PhotoList, 1, Min(photoCount, 10))
          /\ invocations[k].output = "meshroom_output"
          /\ invocations[k].save = "project"
          /\ Written("project")
          /\ files["project"] = ProjectFile(photoCount)

\* a run on more than 10 photos has started the delegate and has ended
Wit_C24_DelegatedAboveLimit ==
    /\ pc = "done" /\ result = "Completed" /\ photoCount > InputLimit
    /\ Len(invocations) = 1


\* ---------------------------------------------------------- failing writes
\* Runs of the four scripts that write their artifacts themselves, in which
\* the writing of one artifact may fail
ArtifactWriters == {"actual", "native", "realistic", "quick"}

InitFaults ==
    /\ script \in ArtifactWriters
    /\ nasUp = TRUE
    /\ photoCount \in 0..MaxFaultPhotos
    /\ pc = FirstPc(script)
    /\ result = "Running"
    /\ dirs = {}
    /\ files = EmptyFiles
    /\ meshroom_path = FALSE
    /\ delegateOutcome = "none"
    /\ success = FALSE
    /\ has_cluster = FALSE
    /\ started = <<>>
    /\ completed = <<>>
    /\ cancelStage = -1
    /\ clock = 0
    /\ entries = <<>>
    /\ listing = <<>>
    /\ kubectl = "ok"
    /\ running_pods \in 0..MaxPods
    /\ (script \in {"actual", "quick"} => running_pods = 0)
    /\ oldOutputs = FALSE
    /\ runs = NoRuns
    /\ seed = 0
    /\ discovery = NoDiscovery
    /\ sim = NoSim
    /\ gui = NoGui
    /\ invocations = <<>>
    /\ writeFault \in [at : {"none"} \cup ArtifactNames, partial : BOOLEAN]
    /\ (writeFault.at = "none" => ~writeFault.partial)

NextFaults ==
    \/ FindMeshroom
    \/ CheckClusterStatus
    \/ CreateSessionFolder
    \/ MakeTemp
    \/ GetPhotos
    \/ Prompt
    \/ RunRealMeshroom
    \/ CreateProject
    \/ SubmitToCluster
    \/ StartStage
    \/ CompleteStage
    \/ RequestCancel
    \/ WritePly
    \/ WriteObj
    \/ WriteDetailedObj
    \/ WriteStl
    \/ WriteSummary

SpecFaults == InitFaults /\ [][NextFaults]_vars

\* the artifacts a script writes, in the order it writes them
WriteOrder(s) ==
    CASE s = "actual" -> <<"ply", "obj">>
      [] s = "quick"  -> <<"ply", "obj", "obj_detailed", "stl">>
      [] OTHER        -> <<"ply", "obj", "stl">>

\* the content a script writes into an artifact
ArtifactContent(s, name) ==
    CASE name = "ply"          -> PlyContent(s, photoCount, seed)
      [] name = "obj"          -> ObjContent(s, photoCount, seed)
      [] name = "obj_detailed" -> create_better_valid_obj
      [] OTHER                 -> StlContent(s, photoCount, seed)

\* the run has come to the writing of the artifact that fails
FaultStruck ==
    /\ writeFault.at # "none"
    /\ \/ pc = "done" /\ result = "Crashed"
       \/ writeFault.at \in DOMAIN files

\* C25: when writing an artifact file fails, the run ends as failed, no
\* later artifact and no summary is written, and the artifacts written
\* before the failure are in place with the content they were given; a
\* summary is written only by a run that did not come to write the failing
\* artifact (the delegate produced the models).
Thm_C25_WriteFailureEndsRun ==
    \A k \in 1..Len(WriteOrder(script)) :
        WriteOrder(script)[k] = writeFault.at =>
            /\ \A j \in 1..Len(WriteOrder(script)) :
                  j > k => ~Written(WriteOrder(script)[j])
            /\ (Written("summary") =>
                  \A j \in 1..Len(WriteOrder(script)) :
                      ~Written(WriteOrder(script)[j]))
            /\ (Written(writeFault.at) =>
                  /\ writeFault.partial
                  /\ files[writeFault.at]
                       = PartOf(ArtifactContent(script, writeFault.at)))
            /\ (FaultStruck =>
                  /\ pc = "done" /\ result = "Crashed"
                  /\ \A j \in 1..k - 1 :
                        /\ Written(WriteOrder(script)[j])
                        /\ files[WriteOrder(script)[j]]
                             = ArtifactContent(script, WriteOrder(script)[j]))

\* the writing of the second artifact has failed after the first was written
Wit_C25_SecondWriteFailed ==
    /\ FaultStruck /\ writeFault.at = "obj" /\ writeFault.partial
    /\ Written("ply") /\ Written("obj") /\ pc = "done"


\* ------------------------------------------------------ the minimal solid
\* the vertex indices of the face record at position i of an OBJ file
FaceVertices(c, i) == {c[i].refs[r] : r \in 1..Len(c[i].refs)}

\* the face records of c that hold all the vertices of the set vs
FacesWith(c, vs) == {i \in Positions(c, "f") : vs \subseteq FaceVertices(c, i)}

RefreshPeriod == 3

\* every variable of the scripts' runs, which the control centre leaves alone
GuiUnchanged ==
    UNCHANGED <<script, nasUp, photoCount, pc, result, dirs, files,
                meshroom_path, delegateOutcome, success, has_cluster,
                started, completed, cancelStage, clock, entries, listing,
                kubectl, running_pods, oldOutputs, runs, seed, discovery,
                sim, invocations, writeFault>>

\* the run variables while the control centre is what is looked at
GuiIdle ==
    /\ script = "actual"
    /\ nasUp = TRUE
    /\ photoCount = 0
    /\ pc = "gui"
    /\ result = "Running"
    /\ dirs = {}
    /\ files = EmptyFiles
    /\ meshroom_path = FALSE
    /\ delegateOutcome = "none"
    /\ success = FALSE
    /\ has_cluster = FALSE
    /\ started = <<>>
    /\ completed = <<>>
    /\ cancelStage = -1
    /\ clock = 0
    /\ entries = <<>>
    /\ listing = <<>>
    /\ kubectl = "ok"
    /\ running_pods = 0
    /\ oldOutputs = FALSE
    /\ runs = NoRuns
    /\ seed = 0
    /\ discovery = NoDiscovery
    /\ sim = NoSim
    /\ invocations = <<>>
    /\ writeFault = NoFault

InitRefresh == GuiIdle /\ gui = GuiStart

\* start_auto_refresh: with auto_refresh set, refresh_all_status() and one
\* more root.after(30000, self.start_auto_refresh)
start_auto_refresh(g) ==
    IF g.auto_refresh
    THEN [g EXCEPT !.timers = Append(@, RefreshPeriod)]
    ELSE g

\* toggle_auto_refresh, the command of the check box: stop_auto_refresh
\* does nothing
toggle_auto_refresh(g) == IF g.auto_refresh THEN start_auto_refresh(g) ELSE g

\* the user clicks the Auto-refresh check box: Tk inverts the variable and
\* calls the command
ClickAutoRefresh ==
    /\ gui.ops < MaxGuiOps
    /\ gui' = toggle_auto_refresh([gui EXCEPT !.auto_refresh = ~@, !.ops = @ + 1])
    /\ GuiUnchanged

\* 10 seconds pass; a timer that is due goes off first
TimePasses ==
    /\ gui.timers # <<>>
    /\ \A i \in 1..Len(gui.timers) : gui.timers[i] > 0
    /\ gui' = [gui EXCEPT !.timers = [i \in 1..Len(@) |-> @[i] - 1]]
    /\ GuiUnchanged

\* the oldest pending callback is due: Tk removes it and calls
\* start_auto_refresh
TimerFires ==
    /\ gui.timers # <<>> /\ gui.timers[1] = 0
    /\ gui' = start_auto_refresh([gui EXCEPT !.timers = Tail(@)])
    /\ GuiUnchanged

NextRefresh == ClickAutoRefresh \/ TimePasses \/ TimerFires

SpecRefresh == InitRefresh /\ [][NextRefresh]_vars

\* C28: for any sequence of toggle_auto_refresh calls, at most one
\* start_auto_refresh callback is pending on the Tk timer at any time.
Claim_C28_OnePendingCallback == Len(gui.timers) <= 1


\* ------------------------------------------- control centre: command history
\* what the user may have typed into the command entry
Typed == {"", " ", "a", "a ", "b", "c"}

\* str.strip()
strip(text) == CASE text = " " -> "" [] text = "a " -> "a" [] OTHER -> text

InList(x, list) == \E i \in 1..Len(list) : list[i] = x

\* execute_command: an empty command returns at once; a command not yet in
\* the history is appended to it, history_index is set to the length of the
\* history, and the entry is cleared (the command then runs in a thread of
\* run_command_in_terminal, which the history does not depend on)
execute_command(g) ==
    LET command == strip(g.command_entry)
        history == IF InList(command, g.command_history) THEN g.command_history
                   ELSE Append(g.command_history, command)
    IN  IF command = "" THEN g
        ELSE [g EXCEPT !.command_history = history,
                       !.history_index = Len(history),
                       !.command_entry = ""]

\* history_up (Python lists are indexed from 0)
history_up(g) ==
    IF g.command_history # <<>> /\ g.history_index > 0
    THEN [g EXCEPT !.history_index = @ - 1,
                   !.command_entry = g.command_history[g.history_index]]
    ELSE g

\* history_down
history_down(g) ==
    IF g.command_history # <<>> /\ g.history_index < Len(g.command_history) - 1
    THEN [g EXCEPT !.history_index = @ + 1,
                   !.command_entry = g.command_history[g.history_index + 2]]
    ELSE IF g.history_index >= Len(g.command_history) - 1
    THEN [g EXCEPT !.history_index = Len(g.command_history),
                   !.command_entry = ""]
    ELSE g

InitHistory == GuiIdle /\ gui = GuiStart

\* the user types a command line into the entry
TypeCommand ==
    /\ gui.ops < MaxGuiOps
    /\ \E text \in Typed : gui' = [gui EXCEPT !.command_entry = text, !.ops = @ + 1]
    /\ GuiUnchanged

\* the user presses Return in the entry
ExecuteCommand ==
    /\ gui.ops < MaxGuiOps
    /\ gui' = execute_command([gui EXCEPT !.ops = @ + 1])
    /\ GuiUnchanged

\* the user presses the Up key
HistoryUp ==
    /\ gui.ops < MaxGuiOps
    /\ gui' = history_up([gui EXCEPT !.ops = @ + 1])
    /\ GuiUnchanged

\* the user presses the Down key
HistoryDown ==
    /\ gui.ops < MaxGuiOps
    /\ gui' = history_down([gui EXCEPT !.ops = @ + 1])
    /\ GuiUnchanged

NextHistory == TypeCommand \/ ExecuteCommand \/ HistoryUp \/ HistoryDown

SpecHistory == InitHistory /\ [][NextHistory]_vars

\* C30: immediately after execute_command has run a non-empty command c, a
\* single history_up puts c into the command entry, whatever was executed
\* and navigated before (also when c had been executed before).
Claim_C30_UpRecallsLastCommand ==
    [][(ExecuteCommand /\ strip(gui.command_entry) # "") =>
          history_up(gui').command_entry = strip(gui.command_entry)]_vars


\* ------------------------------------------- control centre: command threads
\* the commands test_connection starts, each in a thread of its own
TestCommands == <<"Testing Docker...", "Testing Kubernetes...", "Testing Python...">>

\* what subprocess.run(command, timeout=300) can do, by the message run()
\* logs for it: return with exit code 0, return with another exit code, raise
\* TimeoutExpired, raise another exception
CommandResults == {"Success", "Failed", "Timeout", "Exception"}

OutcomeKinds == CommandResults

\* the message that may follow the outcome: the command's stdout after
\* Success, its stderr after Failed (the model does not follow the stdout of
\* a failed command, which run() logs last)
DetailsOf(outcome) == IF outcome = "Success" THEN "Output" ELSE "Errors"

\* where run() stands once the outcome is logged: in the branch of the exit
\* code with its optional message ahead, or at its end
AfterOutcome(outcome) ==
    IF outcome \in {"Success", "Failed"} THEN outcome ELSE "finished"

\* log_message: the formatted message is inserted at the end of the terminal
log_message(g, t, kind) == [g EXCEPT !.log = Append(@, [thread |-> t, kind |-> kind])]

\* run_command_in_thread: a daemon thread that is about to run run()
run_command_in_thread(g, description) ==
    [g EXCEPT !.threads = Append(@, [description |-> description,
                                     pc |-> "starting"])]

\* clear_dashboard_terminal empties the terminal (its banner is not a message
\* of any command)
clear_dashboard_terminal(g) == [g EXCEPT !.log = <<>>]

RECURSIVE StartAll(_, _)
StartAll(g, descriptions) ==
    IF descriptions = <<>> THEN g
    ELSE StartAll(run_command_in_thread(g, Head(descriptions)), Tail(descriptions))

InitThreads == GuiIdle /\ gui = GuiStart

\* test_connection: clears the terminal, logs its own message (thread 0 is
\* the main thread) and starts the three command threads.  The model follows
\* one connectivity test.
TestConnection ==
    /\ gui.threads = <<>>
    /\ gui' = StartAll(log_message(clear_dashboard_terminal(gui), 0, "Testing"),
                       TestCommands)
    /\ GuiUnchanged

\* run(): self.log_message(f"Starting: {description}")
LogStarting(t) ==
    /\ gui.threads[t].pc = "starting"
    /\ gui' = [log_message(gui, t, "Starting") EXCEPT !.threads[t].pc = "command"]
    /\ GuiUnchanged

\* run(): self.log_message(f"Command: {command}")
LogCommand(t) ==
    /\ gui.threads[t].pc = "command"
    /\ gui' = [log_message(gui, t, "Command") EXCEPT !.threads[t].pc = "run"]
    /\ GuiUnchanged

\* run(): subprocess.run ends in one of its ways, and the branch or handler
\* taken logs its outcome; the thread touches nothing shared in between
RunCommand_twice(t) ==
    /\ gui.threads[t].pc = "run"
    /\ \E r \in CommandResults :
         gui' = [log_message(log_message(gui, t, r), t, r)
                    EXCEPT !.threads[t].pc = AfterOutcome(r)]
    /\ GuiUnchanged

RunCommand(t) ==
    /\ gui.threads[t].pc = "run"
    /\ \E r \in CommandResults :
         gui' = [log_message(gui, t, r) EXCEPT !.threads[t].pc = AfterOutcome(r)]
    /\ GuiUnchanged

\* run(): the command printed something, which is logged after Success or
\* Failed; a command that printed nothing leaves the thread where it is, at
\* the end of run()
LogDetails(t) ==
    /\ gui.threads[t].pc \in {"Success", "Failed"}
    /\ gui' = [log_message(gui, t, DetailsOf(gui.threads[t].pc))
                  EXCEPT !.threads[t].pc = "finished"]
    /\ GuiUnchanged

NextThreads ==
    \/ TestConnection
    \/ \E t \in 1..Len(gui.threads) :
         LogStarting(t) \/ LogCommand(t) \/ RunCommand(t) \/ LogDetails(t)

SpecThreads == InitThreads /\ [][NextThreads]_vars

\* positions in the log of the messages of thread t that are of kind in kinds
LogAt(t, kinds) ==
    {i \in 1..Len(gui.log) : gui.log[i].thread = t /\ gui.log[i].kind \in kinds}

\* C29: every command thread has logged exactly one outcome message
\* (Success, Failed, Timeout or Exception) once its subprocess has ended and
\* none before, and that message stands after the thread's own Starting and
\* Command messages, in this order, however the three threads of
\* test_connection interleave.
Thm_C29_OneOutcomePerCommand ==
    \A t \in 1..Len(gui.threads) :
        /\ Cardinality(LogAt(t, OutcomeKinds)) =
              IF gui.threads[t].pc \in {"Success", "Failed", "finished"} THEN 1 ELSE 0
        /\ Cardinality(LogAt(t, {"Starting"})) <= 1
        /\ Cardinality(LogAt(t, {"Command"})) <= 1
        /\ \A o \in LogAt(t, OutcomeKinds) :
              \E s \in LogAt(t, {"Starting"}) : \E c \in LogAt(t, {"Command"}) :
                  s < c /\ c < o

\* the three threads have all logged their last message and the messages are
\* interleaved: the thread started last logged its outcome between the first
\* thread's Starting message and its outcome
Wit_C29_ThreeFinishedInterleaved ==
    /\ Len(gui.threads) = Len(TestCommands)
    /\ \A t \in 1..Len(gui.threads) : gui.threads[t].pc = "finished"
    /\ \E o3 \in LogAt(3, OutcomeKinds) : \E s1 \in LogAt(1, {"Starting"}) :
          \E o1 \in LogAt(1, OutcomeKinds) : s1 < o3 /\ o3 < o1

====
